---- MODULE Spec2Model ----
(***************************************************************************)
(* Model of paulina_scraper.py (Exemats/compras-semanales): the ingredient *)
(* normaliser, the shopping-list extractor and the reconciliation of       *)
(* shopping-list items with the days whose recipes use them.               *)
(*                                                                         *)
(* Text is modelled as TLA+ strings handled character by character, so     *)
(* that the regular expressions of the source are computed, not assumed.   *)
(* Category names are written without their decorative symbol suffix.      *)
(***************************************************************************)
EXTENDS Integers, Sequences, FiniteSets, TLC

VARIABLES
    raw, key, rekey, npc,                       \* normaliser harness
    soup, lista_general, lista_veggie,          \* PaulinaExtractor fields
    recetas_por_dia, retorno,
    items_compartidos,                          \* the two lists share their item lists
    item_to_days, item_to_days_veggie, match_log,   \* built by generar_json
    resultado, raised, pc,
    enlaces, falla_red, menus,                  \* MenuDiscoverer.descubrir_menus
    responden, disponibles, semana, dpc,        \* detectar_semana_actual
    cat_texto, categoria, cpc,                  \* _detectar_categoria harness
    db, coleccion, respaldo, borrados, pasos,   \* main --reset-db: Firestore and backup
    pendientes, en_curso, exitosas, codigo, rpc \* main --reset-db: the upload loop

normVars == <<raw, key, rekey, npc>>
extVars  == <<soup, lista_general, lista_veggie, recetas_por_dia, retorno,
              items_compartidos,
              item_to_days, item_to_days_veggie, match_log, resultado, raised, pc>>
discVars == <<enlaces, falla_red, menus, responden, disponibles, semana, dpc>>
catVars  == <<cat_texto, categoria, cpc>>
resetVars == <<db, coleccion, respaldo, borrados, pasos, pendientes, en_curso, exitosas, codigo, rpc>>
vars     == <<normVars, extVars, discVars, catVars, resetVars>>

(***************************************************************************)
(* Bounds of the model.                                                    *)
(***************************************************************************)
MaxTokens == 3      \* tokens concatenated into a raw ingredient phrase
MaxNodes == 4       \* elements inside the list container of a document
MaxItems == 2       \* labels of the shopping list of a document with recipes
MaxIngs == 2        \* ingredient labels of one day of such a document

(***************************************************************************)
(* Strings.                                                                *)
(***************************************************************************)
At(s, i) == SubSeq(s, i, i)

\* s has p at index i (compared character by character)
StartsWithAt(s, i, p) ==
    /\ i + Len(p) - 1 <= Len(s)
    /\ \A k \in 1..Len(p) : At(s, i + k - 1) = At(p, k)

StartsWith(s, p) == StartsWithAt(s, 1, p)

EndsWith(s, p) == Len(p) <= Len(s) /\ StartsWithAt(s, Len(s) - Len(p) + 1, p)

\* Python's  sub in s
Contains(s, sub) == \E i \in 1..(Len(s) - Len(sub) + 1) : StartsWithAt(s, i, sub)

\* \s of the regular expressions, and the characters str.strip() removes
Whitespace == {" ", "\t", "\n", "\r", "\f"}

IsSpace(c) == c \in Whitespace

\* \d
Digits == {"0", "1", "2", "3", "4", "5", "6", "7", "8", "9"}

IsDigit(c) == c \in Digits

\* [a-z]
AZ == {"a", "b", "c", "d", "e", "f", "g", "h", "i", "j", "k", "l", "m",
       "n", "o", "p", "q", "r", "s", "t", "u", "v", "w", "x", "y", "z"}

IsAZ(c) == c \in AZ

\* index of the first character at or after i that is not whitespace (Len(s)+1 if none)
RECURSIVE SkipSpaces(_, _)
SkipSpaces(s, i) ==
    IF i <= Len(s) /\ IsSpace(At(s, i)) THEN SkipSpaces(s, i + 1) ELSE i

\* index of the last character at or before j that is not whitespace (0 if none)
RECURSIVE SkipSpacesBack(_, _)
SkipSpacesBack(s, j) ==
    IF j >= 1 /\ IsSpace(At(s, j)) THEN SkipSpacesBack(s, j - 1) ELSE j

\* str.strip()
Strip(s) == SubSeq(s, SkipSpaces(s, 1), SkipSpacesBack(s, Len(s)))

UpperChars == "ABCDEFGHIJKLMNOPQRSTUVWXYZÁÉÍÓÚÑÜ"
LowerChars == "abcdefghijklmnopqrstuvwxyzáéíóúñü"

\* the character map that sends the i-th character of from to the i-th of to
Table(from, to) ==
    [c \in {At(from, i) : i \in 1..Len(from)} |->
        At(to, CHOOSE i \in 1..Len(from) : At(from, i) = c)]

\* s with every character in the domain of table replaced by its image
RECURSIVE Translate(_, _, _)
Translate(s, table, i) ==
    IF i > Len(s) THEN ""
    ELSE (IF At(s, i) \in DOMAIN table THEN table[At(s, i)] ELSE At(s, i))
             \o Translate(s, table, i + 1)

LowerTable == Table(UpperChars, LowerChars)

UpperTable == Table(LowerChars, UpperChars)

\* str.lower()
Lower(s) == Translate(s, LowerTable, 1)

\* s.split(): the maximal runs of non-whitespace characters, in order
RECURSIVE SplitFrom(_, _)
SplitFrom(s, i) ==
    LET a == SkipSpaces(s, i)
        NextSpace[j \in 1..(Len(s) + 1)] ==
            IF j > Len(s) \/ IsSpace(At(s, j)) THEN j ELSE NextSpace[j + 1]
    IN  IF a > Len(s) THEN <<>>
        ELSE <<SubSeq(s, a, NextSpace[a] - 1)>> \o SplitFrom(s, NextSpace[a])

Split(s) == SplitFrom(s, 1)

\* ' '.join(words)
RECURSIVE Join(_)
Join(words) ==
    IF words = <<>> THEN ""
    ELSE IF Len(words) = 1 THEN words[1]
    ELSE words[1] \o " " \o Join(Tail(words))

\* [w for w in words if len(w) > 1]
RECURSIVE LongerThanOne(_)
LongerThanOne(words) ==
    IF words = <<>> THEN <<>>
    ELSE (IF Len(words[1]) > 1 THEN <<words[1]>> ELSE <<>>) \o LongerThanOne(Tail(words))

Range(f) == {f[i] : i \in DOMAIN f}

(***************************************************************************)
(* generar_json._norm_ing: the ingredient normaliser.                      *)
(***************************************************************************)
MAX_NORMALIZED_WORDS == 3

\* [\d\s\/½¼¾,.x×]
QtyChars == Digits \cup Whitespace \cup {"/", "½", "¼", "¾", ",", ".", "x", "×"}

IsQtyChar(c) == c \in QtyChars

\* The unit alternation in the order the regular expression tries it; an
\* optional suffix (s?, (?:es)?) is greedy, so the longer form is tried first.
UnitAlternatives ==
    <<"g", "gr", "kg", "ml", "l", "lt", "lts", "litros", "litro", "cdas", "cda",
      "cucharadas", "cucharada", "tazas", "taza", "unidades", "unidad",
      "paquetes", "paquete", "latas", "lata", "sobres", "sobre">>

\* the first alternative of alts that s has at index i ("" when none has)
FirstAlternativeAt(alts, s, i) ==
    LET I == {k \in 1..Len(alts) : StartsWithAt(s, i, alts[k])}
    IN  IF I = {} THEN ""
        ELSE alts[CHOOSE k \in I : \A m \in I : k <= m]

\* end of the maximal run of quantity characters from index i
RECURSIVE SkipQty(_, _)
SkipQty(s, i) ==
    IF i <= Len(s) /\ IsQtyChar(At(s, i)) THEN SkipQty(s, i + 1) ELSE i

\* re.sub(r'^[\d\s\/½¼¾,.x×]+\s*(?:g|gr|kg|...)?\s*', '', n)
StripQuantity(n) ==
    IF n = "" \/ ~IsQtyChar(At(n, 1)) THEN n
    ELSE LET a == SkipQty(n, 1)
             u == FirstAlternativeAt(UnitAlternatives, n, a)
             b == SkipSpaces(n, a + Len(u))
         IN  SubSeq(n, b, Len(n))

NumberWords ==
    <<"un", "una", "uno", "dos", "tres", "cuatro", "cinco", "medio", "media",
      "pizca", "chorro", "poco", "mucho">>

\* re.sub(r'^(un|una|...|mucho)\s+', '', n): the first alternative that is
\* followed by whitespace, with all the whitespace after it
StripLeadingWord(alts, n) ==
    LET I == {k \in 1..Len(alts) :
                 /\ StartsWith(n, alts[k])
                 /\ Len(n) > Len(alts[k])
                 /\ IsSpace(At(n, Len(alts[k]) + 1))}
    IN  IF I = {} THEN n
        ELSE LET w == alts[CHOOSE k \in I : \A m \in I : k <= m]
             IN  SubSeq(n, SkipSpaces(n, Len(w) + 1), Len(n))

StripNumberWord(n) == StripLeadingWord(NumberWords, n)

\* re.sub(r'\([^)]*\)', '', n): every "(" that has a ")" after it is removed
\* with everything up to the first such ")"
RECURSIVE RemoveParens(_, _)
RemoveParens(n, i) ==
    IF i > Len(n) THEN ""
    ELSE IF At(n, i) = "("
         THEN LET C == {j \in (i + 1)..Len(n) : At(n, j) = ")"}
              IN  IF C = {} THEN SubSeq(n, i, Len(n))
                  ELSE RemoveParens(n, (CHOOSE j \in C : \A m \in C : j <= m) + 1)
         ELSE At(n, i) \o RemoveParens(n, i + 1)

Qualifiers == <<"c/n", "a gusto", "cantidad necesaria", "opcional">>

\* re.sub(r'\s*(c/n|a gusto|cantidad necesaria|opcional)\s*$', '', n): a
\* qualifier at the end (trailing whitespace apart) goes, with the whitespace
\* before it and after it
StripQualifier(n) ==
    LET e == SkipSpacesBack(n, Len(n))
        I == {k \in 1..Len(Qualifiers) : EndsWith(SubSeq(n, 1, e), Qualifiers[k])}
    IN  IF I = {} THEN n
        ELSE LET q == Qualifiers[CHOOSE k \in I : TRUE]
             IN  SubSeq(n, 1, SkipSpacesBack(n, e - Len(q)))

\* unicodedata.normalize('NFD', c) without its combining marks
AccentedChars == "áéíóúñü"
BaseChars     == "aeiounu"

AccentTable == Table(AccentedChars, BaseChars)

StripAccents(n) == Translate(n, AccentTable, 1)

\* re.sub(r'^de\s+', '', n)
StripDe(n) == StripLeadingWord(<<"de">>, n)

\* re.sub(r'[^a-z\s]', ' ', n)
RECURSIVE NonLettersToSpaces(_, _)
NonLettersToSpaces(n, i) ==
    IF i > Len(n) THEN ""
    ELSE (IF IsAZ(At(n, i)) \/ IsSpace(At(n, i)) THEN At(n, i) ELSE " ")
             \o NonLettersToSpaces(n, i + 1)

FirstWords(words, k) == SubSeq(words, 1, IF Len(words) < k THEN Len(words) ELSE k)

_norm_ing(text) ==
    LET n1 == Strip(Lower(text))
        n2 == StripQuantity(n1)
        n3 == StripNumberWord(n2)
        n4 == Strip(RemoveParens(n3, 1))
        n5 == Strip(StripQualifier(n4))
        n6 == StripAccents(n5)
        n7 == StripDe(n6)
        n8 == NonLettersToSpaces(n7, 1)
        words == LongerThanOne(Split(n8))
    IN  Join(FirstWords(words, MAX_NORMALIZED_WORDS))

(***************************************************************************)
(* The parsed document (self.soup).  It is a sequence of blocks in         *)
(* document order: the div/section elements under body.  A block has an    *)
(* id, a data-nombre attribute, a class and, in document order, the        *)
(* elements below it that the extractor looks at (nodes): each with its    *)
(* tag name, class and text.  Python dicts keep insertion order: they are  *)
(* sequences of records here.                                              *)
(***************************************************************************)
Min(a, b) == IF a < b THEN a ELSE b

First(I) == CHOOSE i \in I : \A m \in I : i <= m

\* elem.get_text(strip=True) of a node
NodeText(node) == Strip(node.texto)

RECURSIVE JoinLines(_)
JoinLines(texts) ==
    IF texts = <<>> THEN "" ELSE texts[1] \o "\n" \o JoinLines(Tail(texts))

\* block.get_text()[:k].lower()
BlockText(b, k) ==
    LET t == JoinLines([i \in 1..Len(b.nodes) |-> b.nodes[i].texto])
    IN  Lower(SubSeq(t, 1, Min(k, Len(t))))

\* the nodes of a block with one of the given tag names, in document order
RECURSIVE NodesNamed(_, _)
NodesNamed(nodes, names) ==
    IF nodes = <<>> THEN <<>>
    ELSE (IF nodes[1].name \in names THEN <<nodes[1]>> ELSE <<>>)
             \o NodesNamed(Tail(nodes), names)

(***************************************************************************)
(* PaulinaExtractor: category classifier.                                  *)
(***************************************************************************)
CATEGORIAS_MAP ==
    << <<"supermercado", "Supermercado", 1>>,
       <<"carnes", "Carnes", 2>>,
       <<"dietética", "Dietética", 3>>,
       <<"dietetica", "Dietética", 3>>,
       <<"verdulería", "Verdulería", 4>>,
       <<"verduleria", "Verdulería", 4>>,
       <<"yapa", "Yapa", 5>>,
       <<"comodín", "Comodín", 6>>,
       <<"comodin", "Comodín", 6>>,
       <<"seguro", "Ya tenés en casa", 7>>,
       <<"casa", "Ya tenés en casa", 7>> >>

DIAS == <<"lunes", "martes", "miércoles", "miercoles", "jueves", "viernes",
          "sábado", "sabado", "domingo">>

OrdenOtros == 99

\* a classifier that knows only the first spelling of each category name
DetectarPrimeraGrafia(texto) ==
    LET texto_lower == Lower(texto)
        I == {k \in 1..Len(CATEGORIAS_MAP) :
                /\ Contains(texto_lower, CATEGORIAS_MAP[k][1])
                /\ \A j \in 1..(k - 1) : CATEGORIAS_MAP[j][2] # CATEGORIAS_MAP[k][2]}
    IN  IF I = {} THEN <<"Otros", OrdenOtros>>
        ELSE <<CATEGORIAS_MAP[First(I)][2], CATEGORIAS_MAP[First(I)][3]>>

\* a classifier that returns the keyword met first in the text, not in the table
DetectarPrimeraEnTexto(texto) ==
    LET texto_lower == Lower(texto)
        Pos(k) == First({i \in 1..Len(texto_lower) :
                            StartsWithAt(texto_lower, i, CATEGORIAS_MAP[k][1])})
        I == {k \in 1..Len(CATEGORIAS_MAP) : Contains(texto_lower, CATEGORIAS_MAP[k][1])}
        best == CHOOSE k \in I : \A m \in I : Pos(k) < Pos(m) \/ (Pos(k) = Pos(m) /\ k <= m)
    IN  IF I = {} THEN <<"Otros", OrdenOtros>>
        ELSE <<CATEGORIAS_MAP[best][2], CATEGORIAS_MAP[best][3]>>

_detectar_categoria(texto) ==
    LET texto_lower == Lower(texto)
        I == {k \in 1..Len(CATEGORIAS_MAP) : Contains(texto_lower, CATEGORIAS_MAP[k][1])}
    IN  IF I = {} THEN <<"Otros", OrdenOtros>>
        ELSE <<CATEGORIAS_MAP[First(I)][2], CATEGORIAS_MAP[First(I)][3]>>

(***************************************************************************)
(* PaulinaExtractor._extraer_lista: the walk of a list container.          *)
(***************************************************************************)
NoElem == 0

\* soup.find(id=container_id): the first block with that id
FindId(doc, container_id) ==
    LET I == {i \in 1..Len(doc) : doc[i].id = container_id}
    IN  IF I = {} THEN NoElem ELSE First(I)

\* soup.find(attrs={'data-nombre': re.compile(r'Lista', re.I)})
FindDataNombreLista(doc) ==
    LET I == {i \in 1..Len(doc) : Contains(Lower(doc[i].data_nombre), "lista")}
    IN  IF I = {} THEN NoElem ELSE First(I)

\* re.sub(r'^[\[\]\u2713\s]+', '', texto).strip(): leading glyphs of C and
\* whitespace go.  The check mark U+2713 of the source's character class is
\* outside the characters a string of this module can hold; no text of the
\* model contains it.
RECURSIVE SkipChars(_, _, _)
SkipChars(s, i, C) ==
    IF i <= Len(s) /\ (At(s, i) \in C \/ IsSpace(At(s, i))) THEN SkipChars(s, i + 1, C) ELSE i

CleanText(texto, C) == Strip(SubSeq(texto, SkipChars(texto, 1, C), Len(texto)))

CheckboxGlyphs == {"[", "]"}

CleanLabel(node) == CleanText(NodeText(node), CheckboxGlyphs)

HasCat(categorias, cat) == \E i \in 1..Len(categorias) : categorias[i].cat = cat

IdxCat(categorias, cat) == First({i \in 1..Len(categorias) : categorias[i].cat = cat})

\* categorias[cat] = {'orden': orden, 'items': []} unless cat is a key already
EnsureCat(categorias, cat, orden) ==
    IF HasCat(categorias, cat) THEN categorias
    ELSE Append(categorias, [cat |-> cat, orden |-> orden, items |-> <<>>])

\* categorias[cat]['items'].append(texto)
AppendItem(categorias, cat, texto) ==
    [categorias EXCEPT ![IdxCat(categorias, cat)].items = Append(@, texto)]

\* if texto not in categorias[cat]['items']: (the list holds strings: equality)
ItemPresent(items, texto) == \E i \in 1..Len(items) : items[i] = texto

IsHeadingLike(node) == node.name = "strong" \/ (node.name # "" /\ Contains(node.clase, "heading"))

\* a walk step whose cursor follows every heading, also one classified as Otros
WalkStepTodoEncabezado(st, elem) ==
    IF IsHeadingLike(elem)
    THEN LET texto == NodeText(elem)
             det == _detectar_categoria(texto)
         IN  IF texto # "" /\ Len(texto) > 2
             THEN [st EXCEPT !.categoria_actual = det[1], !.orden_actual = det[2]]
             ELSE st
    ELSE IF elem.name = "label"
    THEN LET texto == CleanLabel(elem)
         IN  IF texto # "" /\ Len(texto) > 1 /\ ~StartsWith(texto, "Lista")
             THEN LET cats == EnsureCat(st.categorias, st.categoria_actual, st.orden_actual)
                      items == cats[IdxCat(cats, st.categoria_actual)].items
                  IN  [st EXCEPT !.categorias =
                          IF ItemPresent(items, texto) THEN cats
                          ELSE AppendItem(cats, st.categoria_actual, texto)]
             ELSE st
    ELSE st

\* one element of parent.descendants; st is the walk's local state
WalkStep(st, elem) ==
    IF IsHeadingLike(elem)
    THEN LET texto == NodeText(elem)
             det == _detectar_categoria(texto)
         IN  IF texto # "" /\ Len(texto) > 2 /\ det[2] # OrdenOtros
             THEN [st EXCEPT !.categoria_actual = det[1], !.orden_actual = det[2]]
             ELSE st
    ELSE IF elem.name = "label"
    THEN LET texto == CleanLabel(elem)
         IN  IF texto # "" /\ Len(texto) > 1 /\ ~StartsWith(texto, "Lista")
             THEN LET cats == EnsureCat(st.categorias, st.categoria_actual, st.orden_actual)
                      items == cats[IdxCat(cats, st.categoria_actual)].items
                  IN  [st EXCEPT !.categorias =
                          IF ItemPresent(items, texto) THEN cats
                          ELSE AppendItem(cats, st.categoria_actual, texto)]
             ELSE st
    ELSE st

RECURSIVE Walk(_, _, _)
Walk(nodes, i, st) ==
    IF i > Len(nodes) THEN st ELSE Walk(nodes, i + 1, WalkStep(st, nodes[i]))

\* lines 519-520: categorias = {}, and the cursor on Supermercado
WalkInicial == [categorias |-> <<>>, categoria_actual |-> "Supermercado", orden_actual |-> 1]

WalkContainer(nodes) == Walk(nodes, 1, WalkInicial).categorias

(***************************************************************************)
(* PaulinaExtractor._extraer_lista_alternativo: the page-wide scan.        *)
(***************************************************************************)
ContainsDia(texto) == \E k \in 1..Len(DIAS) : Contains(texto, DIAS[k])

\* the section that holds "Lista de compras" (lines 551-566)
FindListaSection(doc) ==
    LET ByText == {i \in 1..Len(doc) :
                      LET texto == BlockText(doc[i], 200)
                      IN  /\ (Contains(texto, "lista de compras") \/ Contains(texto, "lista general"))
                          /\ ~ContainsDia(texto)}
        ByClass == {i \in 1..Len(doc) :
                      /\ \/ Contains(Lower(doc[i].clase), "lista")
                         \/ Contains(Lower(doc[i].clase), "shopping")
                         \/ Contains(Lower(doc[i].clase), "compras")
                      /\ ~ContainsDia(BlockText(doc[i], 100))}
    IN  IF ByText # {} THEN First(ByText)
        ELSE IF ByClass # {} THEN First(ByClass)
        ELSE NoElem

\* the label is inside the section of a day's recipe (lines 576-586)
EsRecetaDiaria(b) ==
    LET parent_text == BlockText(b, 200)
    IN  \E k \in 1..Len(DIAS) :
            /\ Contains(parent_text, DIAS[k])
            /\ (Contains(parent_text, "receta") \/ Contains(parent_text, "ingredientes"))

RECURSIVE PageLabels(_, _)
PageLabels(doc, i) ==
    IF i > Len(doc) THEN <<>>
    ELSE (IF EsRecetaDiaria(doc[i]) THEN <<>> ELSE NodesNamed(doc[i].nodes, {"label"}))
             \o PageLabels(doc, i + 1)

AltLabels(doc) ==
    LET lista_section == FindListaSection(doc)
    IN  IF lista_section # NoElem THEN NodesNamed(doc[lista_section].nodes, {"label"})
        ELSE PageLabels(doc, 1)

OrdenAlternativo == 1

\* a scan step that looks for the text only among the items of the current category
AltStepPorCategoria(st, label) ==
    LET texto == CleanLabel(label)
        det == _detectar_categoria(texto)
        cats == EnsureCat(st.categorias, st.categoria_actual, OrdenAlternativo)
    IN  IF texto = "" \/ Len(texto) < 2 THEN st
        ELSE IF det[2] # OrdenOtros /\ Len(texto) < 30
             THEN [st EXCEPT !.categoria_actual = det[1]]
        ELSE IF \E k \in 1..Len(cats[IdxCat(cats, st.categoria_actual)].items) :
                    Lower(cats[IdxCat(cats, st.categoria_actual)].items[k]) = Lower(texto)
             THEN st
        ELSE [st EXCEPT !.categorias = AppendItem(cats, st.categoria_actual, texto)]

\* one label of the scan (lines 594-615); st is the scan's local state
AltStep(st, label) ==
    LET texto == CleanLabel(label)
        texto_normalizado == Strip(Lower(texto))
        det == _detectar_categoria(texto)
    IN  IF texto = "" \/ Len(texto) < 2 THEN st
        ELSE IF texto_normalizado \in st.items_vistos THEN st
        ELSE IF det[2] # OrdenOtros /\ Len(texto) < 30
             THEN [st EXCEPT !.categoria_actual = det[1]]
        ELSE [st EXCEPT
                 !.categorias = AppendItem(EnsureCat(st.categorias, st.categoria_actual,
                                                     OrdenAlternativo),
                                           st.categoria_actual, texto),
                 !.items_vistos = @ \cup {texto_normalizado}]

RECURSIVE AltScan(_, _, _)
AltScan(labels, i, st) ==
    IF i > Len(labels) THEN st ELSE AltScan(labels, i + 1, AltStep(st, labels[i]))

_extraer_lista_alternativo(doc) ==
    AltScan(AltLabels(doc), 1, [categorias |-> <<>>,
                                categoria_actual |-> "Supermercado",
                                items_vistos |-> {}]).categorias

\* an extractor that takes the fallbacks for the vegetarian list too
ExtraerListaSinGuarda(doc, container_id) ==
    LET byId == FindId(doc, container_id)
        container == IF byId # NoElem THEN byId ELSE FindDataNombreLista(doc)
    IN  IF container = NoElem THEN _extraer_lista_alternativo(doc)
        ELSE WalkContainer(doc[container].nodes)

_extraer_lista(doc, container_id) ==
    LET byId == FindId(doc, container_id)
        container == IF byId # NoElem THEN byId ELSE FindDataNombreLista(doc)
    IN  IF byId = NoElem /\ container_id = "lista_compra_v" THEN <<>>
        ELSE IF container = NoElem THEN _extraer_lista_alternativo(doc)
        ELSE WalkContainer(doc[container].nodes)

(***************************************************************************)
(* PaulinaExtractor._extraer_recetas_por_dia.                              *)
(***************************************************************************)
MAX_INGREDIENT_LENGTH == 200

MaxHeadingLength == 80

MinNombreLength == 5

INSTRUCTION_PATTERN == <<"paso", "step", "instruc", "prepar", "cocin", "herv", "serv">>

dias_buscar == <<"lunes", "martes", "miércoles", "jueves", "viernes", "sábado", "domingo">>

\* dia.replace('é', 'e').replace('á', 'a')
SinAcentoTable == Table("éá", "ea")

SinAcento(dia) == Translate(dia, SinAcentoTable, 1)

\* str.capitalize()
Capitalize(s) ==
    IF s = "" THEN ""
    ELSE Translate(At(s, 1), UpperTable, 1) \o Lower(SubSeq(s, 2, Len(s)))

MentionsDia(texto_lower, dia) ==
    Contains(texto_lower, dia) \/ Contains(texto_lower, SinAcento(dia))

\* Strategy 1: the first h2/h3/h4/strong of the document whose text holds the
\* day; its section is the block it lies in (lines 635-650)
IsDiaHeading(node, dia) ==
    /\ node.name \in {"h2", "h3", "h4", "strong"}
    /\ LET h_text == Lower(NodeText(node))
       IN  Len(h_text) <= MaxHeadingLength /\ MentionsDia(h_text, dia)

\* div j is div i or is nested in it
RECURSIVE Desciende(_, _, _)
Desciende(doc, j, i) ==
    j = i \/ (doc[j].padre # 0 /\ Desciende(doc, doc[j].padre, i))

\* the leaf elements inside div i, its nested divs included, in document order
RECURSIVE DescNodesFrom(_, _, _)
DescNodesFrom(doc, i, j) ==
    IF j > Len(doc) THEN <<>>
    ELSE (IF Desciende(doc, j, i) THEN doc[j].nodes ELSE <<>>) \o DescNodesFrom(doc, i, j + 1)

DescNodes(doc, i) == DescNodesFrom(doc, i, i)

\* div i as a section: find_all() and get_text() on it see all that is inside
Seccion(doc, i) == [doc[i] EXCEPT !.nodes = DescNodes(doc, i)]

\* line 641: range(5)
MaxAscenso == 5

\* parent.find('label') or parent.find('li')
TieneIngredientes(doc, i) == NodesNamed(DescNodes(doc, i), {"label", "li"}) # <<>>

\* lines 640-646: from div a upwards, at most n divs and never body: the
\* first that holds a label or a list item (NoElem if none)
RECURSIVE Ascender(_, _, _)
Ascender(doc, a, n) ==
    IF n = 0 \/ a = 0 THEN NoElem
    ELSE IF TieneIngredientes(doc, a) THEN a
    ELSE Ascender(doc, doc[a].padre, n - 1)

\* a section search that climbs no further than the heading's parent
SectionSinAscenso(doc, dia) ==
    LET I == {i \in 1..Len(doc) :
                 \E j \in 1..Len(doc[i].nodes) : IsDiaHeading(doc[i].nodes[j], dia)}
    IN  IF I = {} THEN NoElem ELSE First(I)

SectionByHeading(doc, dia) ==
    LET I == {i \in 1..Len(doc) :
                 \E j \in 1..Len(doc[i].nodes) : IsDiaHeading(doc[i].nodes[j], dia)}
    IN  IF I = {} THEN NoElem
        ELSE IF Ascender(doc, First(I), MaxAscenso) # NoElem
             THEN Ascender(doc, First(I), MaxAscenso)
        ELSE First(I)

\* Strategy 2: by id or data-nombre built from the day (lines 653-660)
FindDiaElem(doc, id_pat) ==
    LET ById == {i \in 1..Len(doc) : StartsWith(Lower(doc[i].id), id_pat)}
        ByData == {i \in 1..Len(doc) : Contains(Lower(doc[i].data_nombre), id_pat)}
    IN  IF ById # {} THEN First(ById)
        ELSE IF ByData # {} THEN First(ByData)
        ELSE NoElem

SectionById(doc, dia) ==
    LET pats == <<dia, SinAcento(dia), "receta_" \o dia, "receta_" \o SinAcento(dia)>>
        I == {k \in 1..Len(pats) : FindDiaElem(doc, pats[k]) # NoElem}
    IN  IF I = {} THEN NoElem ELSE FindDiaElem(doc, pats[First(I)])

LocateDia(doc, dia) ==
    IF SectionByHeading(doc, dia) # NoElem THEN SectionByHeading(doc, dia)
    ELSE SectionById(doc, dia)

\* the first h2/h3/h4 of the section that is long enough, the day's heading too
NombreCualquierTitulo(section, dia) ==
    LET hs == NodesNamed(section.nodes, {"h2", "h3", "h4"})
        I == {k \in 1..Len(hs) : Len(NodeText(hs[k])) > MinNombreLength}
    IN  IF I = {} THEN "" ELSE NodeText(hs[First(I)])

\* the first h2/h3/h4 of the section that is not the day's heading
NombreReceta(section, dia) ==
    LET hs == NodesNamed(section.nodes, {"h2", "h3", "h4"})
        I == {k \in 1..Len(hs) :
                 /\ Len(NodeText(hs[k])) > MinNombreLength
                 /\ ~MentionsDia(Lower(NodeText(hs[k])), dia)}
    IN  IF I = {} THEN "" ELSE NodeText(hs[First(I)])

IsInstruction(texto_lower) ==
    \E k \in 1..Len(INSTRUCTION_PATTERN) : StartsWith(texto_lower, INSTRUCTION_PATTERN[k])

KeepIngredient(ing) ==
    /\ ing # ""
    /\ Len(ing) > 1
    /\ Len(ing) < MAX_INGREDIENT_LENGTH
    /\ ~IsInstruction(Lower(ing))

\* the cleaned texts of the given nodes that pass the filters, in order
RECURSIVE Candidates(_, _)
Candidates(nodes, glyphs) ==
    IF nodes = <<>> THEN <<>>
    ELSE LET ing == CleanText(NodeText(nodes[1]), glyphs)
         IN  (IF KeepIngredient(ing) THEN <<ing>> ELSE <<>>)
                 \o Candidates(Tail(nodes), glyphs)

\* [ ] and, for list items, the bullets and dashes of the source's class (the
\* bullet U+2022 of that class is outside the characters of this module)
ListItemGlyphs == {"[", "]", "·", "-"}

\* the ingredients from the i-th on, as they came
SinDeduplicar(ings, i, seen) == SubSeq(ings, i, Len(ings))

\* lines 705-712
RECURSIVE Deduplicar(_, _, _)
Deduplicar(ings, i, seen) ==
    IF i > Len(ings) THEN <<>>
    ELSE LET norm == Strip(Lower(ings[i]))
         IN  IF norm # "" /\ norm \notin seen
             THEN <<ings[i]>> \o Deduplicar(ings, i + 1, seen \cup {norm})
             ELSE Deduplicar(ings, i + 1, seen)

\* ul.find_all('li', recursive=False) over the ul/ol of the section
RECURSIVE DirectListItems(_)
DirectListItems(nodes) ==
    IF nodes = <<>> THEN <<>>
    ELSE (IF nodes[1].name = "li" /\ nodes[1].en \in {"ul", "ol"} THEN <<nodes[1]>> ELSE <<>>)
             \o DirectListItems(Tail(nodes))

\* ingredients gathered from the labels and the list items together
IngredientesSinNiveles(section) ==
    Deduplicar(Candidates(NodesNamed(section.nodes, {"label"}), CheckboxGlyphs)
                   \o Candidates(NodesNamed(section.nodes, {"li"}), ListItemGlyphs), 1, {})

\* lines 674-712: labels first; list items when no label gave an ingredient;
\* list items directly under ul/ol when those gave none either
Ingredientes(section) ==
    LET labels == Candidates(NodesNamed(section.nodes, {"label"}), CheckboxGlyphs)
        lis == Candidates(NodesNamed(section.nodes, {"li"}), ListItemGlyphs)
        directos == Candidates(DirectListItems(section.nodes), ListItemGlyphs)
    IN  Deduplicar(IF labels # <<>> THEN labels
                   ELSE IF lis # <<>> THEN lis
                   ELSE directos, 1, {})

RECURSIVE RecetasDesde(_, _)
RecetasDesde(doc, k) ==
    IF k > Len(dias_buscar) THEN <<>>
    ELSE LET dia == dias_buscar[k]
             section == LocateDia(doc, dia)
         IN  IF section = NoElem THEN RecetasDesde(doc, k + 1)
             ELSE LET nombre == NombreReceta(Seccion(doc, section), dia)
                      ings == Ingredientes(Seccion(doc, section))
                  IN  (IF nombre # "" \/ ings # <<>>
                       THEN <<[dia |-> Capitalize(dia), nombre |-> nombre,
                               ingredientes |-> ings]>>
                       ELSE <<>>) \o RecetasDesde(doc, k + 1)

_extraer_recetas_por_dia(doc) == RecetasDesde(doc, 1)

(***************************************************************************)
(* PaulinaExtractor.generar_json: ordering of the categories and the       *)
(* reconciliation of list items with days (_build_mappings).               *)
(***************************************************************************)
\* sorted(cats.items(), key=orden): stable
RECURSIVE InsertByOrden(_, _)
InsertByOrden(sorted, c) ==
    IF sorted = <<>> THEN <<c>>
    ELSE IF sorted[Len(sorted)].orden <= c.orden THEN Append(sorted, c)
    ELSE Append(InsertByOrden(SubSeq(sorted, 1, Len(sorted) - 1), c), sorted[Len(sorted)])

RECURSIVE ordenar_categorias(_)
ordenar_categorias(cats) ==
    IF cats = <<>> THEN <<>>
    ELSE InsertByOrden(ordenar_categorias(SubSeq(cats, 1, Len(cats) - 1)), cats[Len(cats)])

\* {cat: data['items'] for cat, data in ordenar_categorias(lista).items()}
CategoriasOrdenadas(lista) ==
    LET o == ordenar_categorias(lista)
    IN  [i \in 1..Len(o) |-> [cat |-> o[i].cat, items |-> o[i].items]]

\* norm_to_items: normalised key -> the list items with that key (lines 1051-1061)
RECURSIVE IndexItems(_, _, _)
IndexItems(items, i, idx) ==
    IF i > Len(items) THEN idx
    ELSE LET norm == _norm_ing(items[i])
             K == {k \in 1..Len(idx) : idx[k].norm = norm}
         IN  IndexItems(items, i + 1,
                 IF norm = "" THEN idx
                 ELSE IF K = {} THEN Append(idx, [norm |-> norm, items |-> <<items[i]>>])
                 ELSE [idx EXCEPT ![First(K)].items = Append(@, items[i])])

RECURSIVE IndexCats(_, _, _)
IndexCats(lista, c, idx) ==
    IF c > Len(lista) THEN idx
    ELSE IndexCats(lista, c + 1, IndexItems(lista[c].items, 1, idx))

NormToItems(lista) == IndexCats(lista, 1, <<>>)

\* None, and the empty list: both false in a condition
NoMatch == <<>>

SharedWords(a, b) == Range(Split(a)) \cap Range(Split(b))

\* a matcher that tries the shared-word rule before containment
FuzzyMatchSharedFirst(norm_to_items, norm_ing) ==
    LET Exact == {k \in 1..Len(norm_to_items) : norm_to_items[k].norm = norm_ing}
        Contained == {k \in 1..Len(norm_to_items) :
                         \/ Contains(norm_to_items[k].norm, norm_ing)
                         \/ Contains(norm_ing, norm_to_items[k].norm)}
        Shared == {k \in 1..Len(norm_to_items) :
                      Cardinality(SharedWords(norm_ing, norm_to_items[k].norm)) >= 2}
    IN  IF Exact # {} THEN norm_to_items[First(Exact)].items
        ELSE IF Shared # {} THEN norm_to_items[First(Shared)].items
        ELSE IF Contained # {} THEN norm_to_items[First(Contained)].items
        ELSE NoMatch

\* lines 1064-1083
_fuzzy_match(norm_to_items, norm_ing) ==
    LET Exact == {k \in 1..Len(norm_to_items) : norm_to_items[k].norm = norm_ing}
        Contained == {k \in 1..Len(norm_to_items) :
                         \/ Contains(norm_to_items[k].norm, norm_ing)
                         \/ Contains(norm_ing, norm_to_items[k].norm)}
        Shared == {k \in 1..Len(norm_to_items) :
                      Cardinality(SharedWords(norm_ing, norm_to_items[k].norm)) >= 2}
    IN  IF Exact # {} THEN norm_to_items[First(Exact)].items
        ELSE IF Contained # {} THEN norm_to_items[First(Contained)].items
        ELSE IF Cardinality(Range(Split(norm_ing))) >= 2 /\ Shared # {}
             THEN norm_to_items[First(Shared)].items
        ELSE NoMatch

\* lines 1110-1117: norm_to_items.get(norm), else _fuzzy_match(norm)
MatchedItems(norm_to_items, norm) ==
    LET Exact == {k \in 1..Len(norm_to_items) : norm_to_items[k].norm = norm}
    IN  IF Exact # {} THEN norm_to_items[First(Exact)].items
        ELSE _fuzzy_match(norm_to_items, norm)

\* a mapping step that replaces the days of the item by the new day
AddDayOverwriting(itd, general_item, dia_key) ==
    LET K == {k \in 1..Len(itd) : itd[k].item = general_item}
    IN  IF K = {} THEN Append(itd, [item |-> general_item, dias |-> <<dia_key>>])
        ELSE [itd EXCEPT ![First(K)].dias = <<dia_key>>]

\* a mapping step that appends the day without looking for it
AddDayUnchecked(itd, general_item, dia_key) ==
    LET K == {k \in 1..Len(itd) : itd[k].item = general_item}
    IN  IF K = {} THEN Append(itd, [item |-> general_item, dias |-> <<dia_key>>])
        ELSE [itd EXCEPT ![First(K)].dias = Append(@, dia_key)]

\* lines 1121-1124, for one list item
AddDay(itd, general_item, dia_key) ==
    LET K == {k \in 1..Len(itd) : itd[k].item = general_item}
        itd1 == IF K = {} THEN Append(itd, [item |-> general_item, dias |-> <<>>]) ELSE itd
        k1 == First({k \in 1..Len(itd1) : itd1[k].item = general_item})
    IN  IF dia_key \in Range(itd1[k1].dias) THEN itd1
        ELSE [itd1 EXCEPT ![k1].dias = Append(@, dia_key)]

RECURSIVE AddDays(_, _, _, _)
AddDays(itd, matched_items, i, dia_key) ==
    IF i > Len(matched_items) THEN itd
    ELSE AddDays(AddDay(itd, matched_items[i], dia_key), matched_items, i + 1, dia_key)

\* the loop over the ingredients of one day (lines 1105-1124); acc holds
\* item_to_days and, in log, the matched_items of every ingredient so far
RECURSIVE MapIngredientes(_, _, _, _, _)
MapIngredientes(norm_to_items, dia_key, ingredientes, i, acc) ==
    IF i > Len(ingredientes) THEN acc
    ELSE LET norm == _norm_ing(ingredientes[i])
             matched_items == MatchedItems(norm_to_items, norm)
         IN  MapIngredientes(norm_to_items, dia_key, ingredientes, i + 1,
                 [item_to_days |-> AddDays(acc.item_to_days, matched_items, 1, dia_key),
                  log |-> Append(acc.log, [dia |-> dia_key, ing |-> ingredientes[i],
                                           matched_items |-> matched_items])])

RECURSIVE MapRecetas(_, _, _, _)
MapRecetas(norm_to_items, recetas, d, acc) ==
    IF d > Len(recetas) THEN acc
    ELSE MapRecetas(norm_to_items, recetas, d + 1,
             MapIngredientes(norm_to_items, recetas[d].dia, recetas[d].ingredientes, 1, acc))

\* The module binds no name "logger" (its imports are lines 29-37): the
\* statistics line raises NameError when it is reached.
LoggerDefined == FALSE

\* lines 1126-1133: the statistics are logged when a day had an ingredient
\* (total_ingredients is the number of ingredients gone through), then
\* item_to_days is returned
LogStats(r) ==
    [item_to_days |-> r.item_to_days, log |-> r.log,
     raised |-> (Len(r.log) > 0 /\ ~LoggerDefined)]

\* nothing built: `if not lista` (line 1045), or the call is not made
NoMappings == [item_to_days |-> <<>>, log |-> <<>>, raised |-> FALSE]

\* _build_mappings(lista): the item_to_days it builds, the matches it made,
\* and whether its logging line raised
_build_mappings(lista, recetas) ==
    IF lista = <<>> THEN NoMappings
    ELSE LogStats(MapRecetas(NormToItems(lista), recetas, 1,
                             [item_to_days |-> <<>>, log |-> <<>>]))

\* dict equality: the same keys with the same values, whatever the order
DictEq(a, b) == Range(a) = Range(b)

(***************************************************************************)
(* The extractor as a state machine: a downloaded document is extracted    *)
(* (extraer, general mode) and the JSON is generated (generar_json).       *)
(***************************************************************************)
NoResult == [error |-> "NameError"]

NormIdle ==
    /\ raw = ""
    /\ key = ""
    /\ rekey = ""
    /\ npc = "idle"

RECURSIVE TotalItems(_)
TotalItems(lista) ==
    IF lista = <<>> THEN 0 ELSE Len(lista[1].items) + TotalItems(Tail(lista))

\* the discoverer at rest
DiscIdle ==
    /\ enlaces = <<>>
    /\ falla_red = FALSE
    /\ menus = <<>>
    /\ responden = {}
    /\ disponibles = <<>>
    /\ semana = 0
    /\ dpc = "idle"

\* no reset of the database under way
NoFile == [escrito |-> FALSE, menus |-> {}]

NoMenu == [url |-> "", titulo |-> "", tipo |-> "", semana |-> 0]

ResetIdle ==
    /\ db = FALSE
    /\ coleccion = {}
    /\ respaldo = [ret |-> FALSE, archivo |-> NoFile]
    /\ borrados = {}
    /\ pasos = <<>>
    /\ pendientes = <<>>
    /\ en_curso = NoMenu
    /\ exitosas = 0
    /\ codigo = -1
    /\ rpc = "idle"

\* the classifier harness at rest
CatIdle ==
    /\ cat_texto = ""
    /\ categoria = <<>>
    /\ cpc = "idle"

\* lines 945-949: the container of the general list, else the page-wide scan
ListaGeneral(doc) ==
    IF _extraer_lista(doc, "lista_compra_g") # <<>> THEN _extraer_lista(doc, "lista_compra_g")
    ELSE _extraer_lista_alternativo(doc)

\* a copy that keeps the item lists of the original (dict.copy())
CopiaSuperficial(lista) == [lista |-> lista, compartidos |-> TRUE]

\* line 956: {k: {'orden': v['orden'], 'items': list(v['items'])} ...}: the
\* same categories, orders and items, in item lists of its own
CopiaLista(lista) == [lista |-> lista, compartidos |-> FALSE]

\* extraer(), modo 'general' with tiene_lista_general (lines 944-971)
Extraer ==
    /\ pc = "descargado"
    /\ \E g \in {ListaGeneral(soup)} :
       \E v0 \in {_extraer_lista(soup, "lista_compra_v")} :
       \E copia \in {CopiaLista(g)} :
          /\ lista_general' = g
          /\ lista_veggie' = IF v0 = <<>> /\ g # <<>> THEN copia.lista ELSE v0
          /\ items_compartidos' = (v0 = <<>> /\ g # <<>> /\ copia.compartidos)
          /\ retorno' = (TotalItems(g) > 0)
    /\ recetas_por_dia' = _extraer_recetas_por_dia(soup)
    /\ pc' = "extraido"
    /\ UNCHANGED <<soup, item_to_days, item_to_days_veggie, match_log, resultado,
                   raised, normVars, discVars, catVars, resetVars>>

\* extraer(), modo 'dias' with tiene_lista_general (lines 925-930)
ExtraerDias ==
    /\ pc = "descargado"
    /\ \E recetas \in {_extraer_recetas_por_dia(soup)} :
          /\ recetas_por_dia' = recetas
          /\ retorno' = (Len(recetas) > 0)
    /\ pc' = "extraido"
    /\ UNCHANGED <<soup, lista_general, lista_veggie, items_compartidos, item_to_days,
                   item_to_days_veggie, match_log, resultado, raised,
                   normVars, discVars, catVars, resetVars>>

\* lines 1135-1137: the mapping of the general list, when there are recipes
MappingsGeneral ==
    IF recetas_por_dia # <<>> THEN _build_mappings(lista_general, recetas_por_dia)
    ELSE NoMappings

\* line 1139: the veggie list is mapped when it differs from the general one
ConVeggie(bg) ==
    /\ recetas_por_dia # <<>>
    /\ ~bg.raised
    /\ lista_veggie # <<>>
    /\ ~DictEq(lista_veggie, lista_general)

MappingsVeggie(bg) ==
    IF ConVeggie(bg) THEN _build_mappings(lista_veggie, recetas_por_dia) ELSE NoMappings

\* generar_json(), modo 'general', no day selection (lines 973-1145)
GenerarJson ==
    /\ pc = "extraido"
    /\ \E bg \in {MappingsGeneral} : \E bv \in {MappingsVeggie(bg)} :
          /\ item_to_days' = bg.item_to_days
          /\ match_log' = bg.log
          /\ item_to_days_veggie' = bv.item_to_days
          /\ raised' = (bg.raised \/ bv.raised)
          /\ resultado' =
                IF bg.raised \/ bv.raised THEN NoResult
                ELSE [general |-> CategoriasOrdenadas(lista_general),
                      veggie |-> CategoriasOrdenadas(lista_veggie),
                      con_item_to_days |-> (recetas_por_dia # <<>> /\ lista_general # <<>>),
                      item_to_days |-> bg.item_to_days,
                      con_item_to_days_veggie |-> ConVeggie(bg),
                      item_to_days_veggie |-> bv.item_to_days,
                      recetas |-> recetas_por_dia]
    /\ pc' = "json"
    /\ UNCHANGED <<soup, lista_general, lista_veggie, recetas_por_dia, retorno,
                   items_compartidos, normVars, discVars, catVars, resetVars>>

ExtNext == Extraer \/ GenerarJson

(***************************************************************************)
(* Documents.                                                              *)
(***************************************************************************)
\* A leaf element: its tag, class and text; en is the tag of its parent when
\* the parent is a list container (ul, ol), else "".
Node(name, texto) == [name |-> name, clase |-> "", en |-> "", texto |-> texto]

NodeEn(name, texto, en) == [name |-> name, clase |-> "", en |-> en, texto |-> texto]

\* A div of the document with the leaf elements it holds.  The divs of a
\* document stand in document order; padre is the index of the div a div is
\* nested in (0: it lies directly under body), and a nested div follows the
\* leaf elements of its parent.
Block(id, nodes) ==
    [id |-> id, data_nombre |-> "", clase |-> "", padre |-> 0, nodes |-> nodes]

BlockEn(padre, nodes) ==
    [id |-> "", data_nombre |-> "", clase |-> "", padre |-> padre, nodes |-> nodes]

\* the sequences over S of length at most k
RECURSIVE Seqs(_, _)
Seqs(S, k) ==
    IF k = 0 THEN {<<>>}
    ELSE LET P == Seqs(S, k - 1) IN P \cup {Append(p, x) : p \in P, x \in S}

\* the sequences of distinct elements of S of length at most k
RECURSIVE SeqsSinRepetir(_, _)
SeqsSinRepetir(S, k) ==
    IF k = 0 THEN {<<>>}
    ELSE LET P == SeqsSinRepetir(S, k - 1)
         IN  P \cup UNION {{Append(p, x) : x \in S \ {p[i] : i \in 1..Len(p)}} : p \in P}

\* the subsequences of master of length at most k
RECURSIVE SubSeqs(_, _)
SubSeqs(master, k) ==
    IF master = <<>> \/ k = 0 THEN {<<>>}
    ELSE SubSeqs(Tail(master), k)
             \cup {<<master[1]>> \o t : t \in SubSeqs(Tail(master), k - 1)}

Labels(texts) == [i \in 1..Len(texts) |-> Node("label", texts[i])]

ExtFresh ==
    /\ lista_general = <<>>
    /\ lista_veggie = <<>>
    /\ recetas_por_dia = <<>>
    /\ retorno = FALSE
    /\ items_compartidos = FALSE
    /\ item_to_days = <<>>
    /\ item_to_days_veggie = <<>>
    /\ match_log = <<>>
    /\ resultado = <<>>
    /\ raised = FALSE
    /\ pc = "descargado"

\* Documents with a shopping list only: one block, with the id of the general
\* list or without it (the page-wide scan then reads its labels), holding
\* category headings and labels.
ListaNodePool ==
    {Node("strong", "Carnes"), Node("label", "Carnes"), Node("label", "Supermercado"),
     Node("label", "arroz"), Node("label", "Arroz"), Node("label", "pollo")}

ListaInit ==
    /\ soup \in {<<Block(id, nodes)>> :
                    id \in {"lista_compra_g", ""}, nodes \in Seqs(ListaNodePool, MaxNodes)}
    /\ ExtFresh
    /\ NormIdle
    /\ ResetIdle
    /\ DiscIdle
    /\ CatIdle

SpecLista == ListaInit /\ [][ExtNext]_vars

\* Documents with a shopping list and the recipes of two days.
ItemPool == {"arroz", "Arroz (integral)", "blanco largo fino"}

IngMaster == <<"1 kg arroz", "arroz blanco largo", "200 g">>

DiaBlock(dia, ings) == Block("", <<Node("h3", dia)>> \o Labels(ings))

\* the document of the spec's first scenario (test_scraper.py, SAMPLE_HTML_FULL)
ScenarioSoup ==
    << Block("lista_compra_g",
             <<Node("strong", "Supermercado"), Node("label", "arroz blanco"),
               Node("label", "fideos"), Node("strong", "Verdulería"),
               Node("label", "tomate"), Node("label", "cebolla")>>),
       Block("", <<Node("h3", "Lunes"), Node("h4", "Risotto de arroz"),
                   Node("label", "arroz blanco"), Node("label", "caldo")>>),
       Block("", <<Node("h3", "Martes"), Node("h4", "Pasta al tomate"),
                   Node("label", "fideos"), Node("label", "tomate"),
                   Node("label", "cebolla")>>) >>

ReconSoups ==
    {<<Block("lista_compra_g", Labels(items)), DiaBlock("Lunes", l), DiaBlock("Martes", m)>> :
        items \in Seqs(ItemPool, MaxItems),
        l \in SubSeqs(IngMaster, MaxIngs),
        m \in SubSeqs(IngMaster, MaxIngs)}

\* documents with a vegetarian list of their own and the recipe of a day
VeggieConReceta ==
    {<<Block("lista_compra_g", Labels(<<"arroz">>)),
       Block("lista_compra_v", Labels(<<v>>)),
       Block("", <<Node("h3", "Lunes"), Node("h4", "Risotto de arroz")>> \o Labels(ings))>> :
        v \in {"arroz", "tofu"}, ings \in {<<>>, <<"tofu">>}}

ReconInit ==
    /\ soup \in ReconSoups \cup {ScenarioSoup} \cup VeggieConReceta
    /\ ExtFresh
    /\ NormIdle
    /\ ResetIdle
    /\ DiscIdle
    /\ CatIdle

SpecRecon == ReconInit /\ [][ExtNext]_vars

\* Documents with two blocks: one that may be the container of the general
\* list (by id or by data-nombre) and one that may be the container of the
\* vegetarian list.
BlockDN(id, data_nombre, nodes) ==
    [id |-> id, data_nombre |-> data_nombre, clase |-> "", padre |-> 0, nodes |-> nodes]

VeggieSoups ==
    {<<BlockDN(idg, dn, Labels(as) \o heading \o Labels(bs)), Block(idv, Labels(vs))>> :
        idg \in {"lista_compra_g", ""}, dn \in {"Lista general", ""},
        idv \in {"lista_compra_v", ""},
        as \in Seqs({"arroz"}, MaxItems), heading \in {<<>>, <<Node("strong", "Carnes")>>},
        bs \in Seqs({"pollo"}, MaxItems), vs \in Seqs({"tofu"}, MaxItems)}

VeggieInit ==
    /\ soup \in VeggieSoups
    /\ ExtFresh
    /\ NormIdle
    /\ ResetIdle
    /\ DiscIdle
    /\ CatIdle

\* the list with texto appended to the items of the category named cat
ConItem(lista, cat, texto) ==
    IF HasCat(lista, cat) THEN AppendItem(lista, cat, texto) ELSE lista

\* A caller changes an item list of one of the two lists after extraer():
\* lista[cat]['items'].append(texto).  The other list shows the change when
\* the item lists are shared.
AgregarItem ==
    /\ pc = "extraido"
    /\ \E lado \in {"general", "veggie"} :
       \E cat \in {(IF lado = "general" THEN lista_general ELSE lista_veggie)[c].cat :
                       c \in 1..Len(IF lado = "general" THEN lista_general ELSE lista_veggie)} :
          /\ lista_general' = IF lado = "general" \/ items_compartidos
                               THEN ConItem(lista_general, cat, "nuevo") ELSE lista_general
          /\ lista_veggie' = IF lado = "veggie" \/ items_compartidos
                              THEN ConItem(lista_veggie, cat, "nuevo") ELSE lista_veggie
    /\ pc' = "modificado"
    /\ UNCHANGED <<soup, recetas_por_dia, retorno, items_compartidos, item_to_days,
                   item_to_days_veggie, match_log, resultado, raised, normVars, discVars, catVars, resetVars>>

VeggieNext == Extraer \/ AgregarItem

SpecVeggie == VeggieInit /\ [][VeggieNext]_vars

NoCaseDuplicates(items) ==
    \A i \in 1..Len(items), j \in 1..Len(items) :
        Lower(Strip(items[i])) = Lower(Strip(items[j])) => i = j

\* Documents with the recipe of one day: a block that opens with the heading
\* of the day and holds labels, list items and a recipe title.
RecetaNodePool ==
    {Node("label", "arroz"), Node("label", "Arroz"), Node("label", "Lunes"),
     Node("li", "caldo"), Node("h4", "Risotto de arroz")}

RecetaSoups ==
    {<<Block("", <<Node("h3", dia)>> \o nodes)>> :
        dia \in {"Lunes", "Miércoles"}, nodes \in Seqs(RecetaNodePool, MaxNodes)}

RecetasInit ==
    /\ soup \in RecetaSoups
    /\ ExtFresh
    /\ NormIdle
    /\ ResetIdle
    /\ DiscIdle
    /\ CatIdle

RecetasNext == Extraer

SpecRecetas == RecetasInit /\ [][RecetasNext]_vars

(***************************************************************************)
(* Claims about the recipes of the days.                                   *)
(***************************************************************************)
DayNames == Range(dias_buscar) \cup {SinAcento(dias_buscar[k]) : k \in 1..Len(dias_buscar)}

\* C13: in every day recipe returned by _extraer_recetas_por_dia no
\* ingredient is, without case, the name of a day, accented or not.
C13_NoDayNameIngredient ==
    pc = "extraido" =>
        \A r \in 1..Len(recetas_por_dia) :
            \A i \in 1..Len(recetas_por_dia[r].ingredientes) :
                Lower(recetas_por_dia[r].ingredientes[i]) \notin DayNames

\* the elements of seq whose index is in I, in order
RECURSIVE Pick(_, _, _)
Pick(seq, I, i) ==
    IF i > Len(seq) THEN <<>>
    ELSE (IF i \in I THEN <<seq[i]>> ELSE <<>>) \o Pick(seq, I, i + 1)

\* the first occurrence of each text, texts compared without case
FirstOccurrences(seq) ==
    Pick(seq, {i \in 1..Len(seq) : \A j \in 1..(i - 1) : Lower(seq[j]) # Lower(seq[i])}, 1)

\* the texts of the labels of the day's section, else of its list items
SectionTexts(section) ==
    LET labels == Candidates(NodesNamed(section.nodes, {"label"}), CheckboxGlyphs)
    IN  IF labels # <<>> THEN labels
        ELSE Candidates(NodesNamed(section.nodes, {"li"}), ListItemGlyphs)

\* C14: in every day recipe no two ingredients are equal without case, and
\* the ingredients are the first occurrences of the section's ingredient
\* texts, in the order of the section.
C14_IngredientsDeduplicated ==
    pc = "extraido" =>
        \A r \in 1..Len(recetas_por_dia) :
            /\ NoCaseDuplicates(recetas_por_dia[r].ingredientes)
            /\ recetas_por_dia[r].ingredientes = FirstOccurrences(SectionTexts(soup[1]))

\* the section repeated an ingredient in another letter case, after a
\* different one
C14_Witness ==
    /\ pc = "extraido"
    /\ Len(recetas_por_dia) = 1
    /\ Len(recetas_por_dia[1].ingredientes) = 2
    /\ Len(SectionTexts(soup[1])) > 2
    /\ \E i \in 1..Len(SectionTexts(soup[1])) :
          /\ SectionTexts(soup[1])[i] \notin Range(recetas_por_dia[1].ingredientes)
          /\ i < Len(SectionTexts(soup[1]))

(***************************************************************************)
(* Claims about the vegetarian list.                                       *)
(***************************************************************************)

\* C11: when the document has no element with id lista_compra_v,
\* _extraer_lista('lista_compra_v') returns the empty mapping: neither the
\* data-nombre lookup nor the page-wide scan gives it general-list content.
C11_VeggieContainerMissing ==
    (pc # "descargado" /\ FindId(soup, "lista_compra_v") = NoElem) =>
        _extraer_lista(soup, "lista_compra_v") = <<>>

\* no vegetarian container, while the data-nombre lookup and the page-wide
\* scan would both have found items
C11_Witness ==
    /\ pc = "extraido"
    /\ FindId(soup, "lista_compra_v") = NoElem
    /\ FindDataNombreLista(soup) # NoElem
    /\ WalkContainer(soup[FindDataNombreLista(soup)].nodes) # <<>>
    /\ _extraer_lista_alternativo(soup) # <<>>
    /\ lista_general # <<>>

Dias(itd, item) ==
    LET K == {k \in 1..Len(itd) : itd[k].item = item}
    IN  IF K = {} THEN <<>> ELSE itd[First(K)].dias

\* C4: a day ingredient whose normalised key is empty is unmatchable: it
\* causes no day to be added to item_to_days.
C4_EmptyKeyUnmatchable ==
    pc = "json" =>
        \A k \in 1..Len(match_log) :
            _norm_ing(match_log[k].ing) = "" => match_log[k].matched_items = NoMatch

\* the recipes of the days whose index is in D
RECURSIVE Restrict(_, _, _)
Restrict(recetas, D, i) ==
    IF i > Len(recetas) THEN <<>>
    ELSE (IF i \in D THEN <<recetas[i]>> ELSE <<>>) \o Restrict(recetas, D, i + 1)

\* every item of m is an item of n, with at least the days it has in m
MappingIncluded(m, n) ==
    \A k \in 1..Len(m) :
        /\ \E j \in 1..Len(n) : n[j].item = m[k].item
        /\ Range(m[k].dias) \subseteq Range(Dias(n, m[k].item))

\* C5: reconciliation is monotonic in the set of days: with the same list,
\* the mapping of any subset of the days is included in the mapping of all.
C5_Monotonic ==
    pc = "json" =>
        \A D \in SUBSET (1..Len(recetas_por_dia)) :
            MappingIncluded(
                _build_mappings(lista_general, Restrict(recetas_por_dia, D, 1)).item_to_days,
                item_to_days)

\* a second day added days to an item that had one already
C5_Witness ==
    /\ pc = "json"
    /\ \E k \in 1..Len(item_to_days) : Len(item_to_days[k].dias) = 2
    /\ \E k \in 1..Len(item_to_days) : Len(item_to_days[k].dias) = 1

ExpectedScenario ==
    << [item |-> "arroz blanco", dias |-> <<"Lunes">>],
       [item |-> "fideos", dias |-> <<"Martes">>],
       [item |-> "tomate", dias |-> <<"Martes">>],
       [item |-> "cebolla", dias |-> <<"Martes">>] >>

AllItems(lista) == UNION {Range(lista[c].items) : c \in 1..Len(lista)}

\* C6: every key of item_to_days is an item of the shopping list, an
\* ingredient that matches nothing contributes no entry and no day, and
\* generar_json gives, for the scenario document, arroz blanco -> [Lunes],
\* fideos -> [Martes], tomate -> [Martes], with no entry for caldo.
C6_OnlyListItems ==
    pc = "json" =>
        /\ \A k \in 1..Len(item_to_days) : item_to_days[k].item \in AllItems(lista_general)
        /\ \A k \in 1..Len(item_to_days) : \A d \in 1..Len(item_to_days[k].dias) :
              \E e \in 1..Len(match_log) :
                  /\ match_log[e].dia = item_to_days[k].dias[d]
                  /\ item_to_days[k].item \in Range(match_log[e].matched_items)
        /\ soup = ScenarioSoup =>
              /\ resultado # NoResult
              /\ resultado.con_item_to_days
              /\ DictEq(resultado.item_to_days, ExpectedScenario)

KeysEqual(idx, n) == {k \in 1..Len(idx) : idx[k].norm = n}

KeysContained(idx, n) ==
    {k \in 1..Len(idx) : Contains(idx[k].norm, n) \/ Contains(n, idx[k].norm)}

KeysSharing(idx, n) ==
    {k \in 1..Len(idx) : Cardinality(Range(Split(n)) \cap Range(Split(idx[k].norm))) >= 2}

ItemsOfSome(idx, K, matched) == \E k \in K : matched = idx[k].items

\* C7: the matching strategies are strictly ranked.  For each day
\* ingredient: an index key equal to its key decides; containment counts
\* only when no key is equal; shared words only when neither; and the day
\* goes to the phrasings of exactly one index key, or of none when no
\* strategy matches.
C7_RankedStrategies ==
    pc = "json" =>
        LET idx == NormToItems(lista_general)
        IN  /\ \A e \in 1..Len(match_log) :
                  LET n == _norm_ing(match_log[e].ing)
                      matched == match_log[e].matched_items
                  IN  /\ IF KeysEqual(idx, n) # {} THEN ItemsOfSome(idx, KeysEqual(idx, n), matched)
                         ELSE IF KeysContained(idx, n) # {}
                              THEN ItemsOfSome(idx, KeysContained(idx, n), matched)
                         ELSE IF KeysSharing(idx, n) # {}
                              THEN ItemsOfSome(idx, KeysSharing(idx, n), matched)
                         ELSE matched = NoMatch
                      /\ matched # NoMatch =>
                            Cardinality({k \in 1..Len(idx) : idx[k].items = matched}) = 1
            /\ \A i \in AllItems(lista_general), d \in {"Lunes", "Martes"} :
                  d \in Range(Dias(item_to_days, i)) <=>
                      \E e \in 1..Len(match_log) :
                          /\ match_log[e].dia = d
                          /\ i \in Range(match_log[e].matched_items)

\* an ingredient whose key is contained in one index key and shares two words
\* with another, earlier one: containment decided
C7_Witness ==
    /\ pc = "json"
    /\ LET idx == NormToItems(lista_general)
       IN  \E e \in 1..Len(match_log) :
               LET n == _norm_ing(match_log[e].ing)
               IN  /\ KeysEqual(idx, n) = {}
                   /\ KeysContained(idx, n) # {}
                   /\ KeysSharing(idx, n) # {}
                   /\ First(KeysSharing(idx, n)) < First(KeysContained(idx, n))
                   /\ match_log[e].matched_items = idx[First(KeysContained(idx, n))].items

NoRepeat(seq) == \A i \in 1..Len(seq), j \in 1..Len(seq) : seq[i] = seq[j] => i = j

\* C8: in item_to_days a day appears at most once in the day list of an item.
C8_DayAtMostOnce ==
    pc = "json" =>
        /\ \A k \in 1..Len(item_to_days) : NoRepeat(item_to_days[k].dias)
        /\ \A k \in 1..Len(item_to_days_veggie) : NoRepeat(item_to_days_veggie[k].dias)

\* two ingredients of one day matched the same item
C8_Witness ==
    /\ pc = "json"
    /\ \E a \in 1..Len(match_log), b \in 1..Len(match_log) :
          /\ a < b
          /\ match_log[a].dia = match_log[b].dia
          /\ Range(match_log[a].matched_items) \cap Range(match_log[b].matched_items) # {}

(***************************************************************************)
(* Claims about the shopping list.                                         *)
(***************************************************************************)
\* C9: in a shopping list returned by _extraer_lista no category holds two
\* items that are equal when trimmed and compared without case.
C9_NoCaseDuplicates ==
    pc # "descargado" =>
        LET lista == _extraer_lista(soup, "lista_compra_g")
        IN  \A c \in 1..Len(lista) : NoCaseDuplicates(lista[c].items)

\* the display order of each category
CanonicalOrder(cat) ==
    CASE cat = "Supermercado" -> 1
      [] cat = "Carnes" -> 2
      [] cat = "Dietética" -> 3
      [] cat = "Verdulería" -> 4
      [] cat = "Yapa" -> 5
      [] cat = "Comodín" -> 6
      [] cat = "Ya tenés en casa" -> 7
      [] OTHER -> 99

Ascending(cats) ==
    \A i \in 1..Len(cats), j \in 1..Len(cats) :
        i < j => CanonicalOrder(cats[i].cat) <= CanonicalOrder(cats[j].cat)

\* C10: generar_json lists the categories of 'general' and 'veggie' in
\* ascending display order, whichever extraction path built the list.
C10_CategoriesAscending ==
    (pc = "json" /\ resultado # NoResult) =>
        Ascending(resultado.general) /\ Ascending(resultado.veggie)

(***************************************************************************)
(* The normaliser applied to raw phrases: a phrase is a concatenation of   *)
(* at most MaxTokens tokens; it is normalised, and the key normalised      *)
(* again.                                                                  *)
(***************************************************************************)
NormTokens ==
    {"2", "2 ", " ", "½ ", "x", "g", "kg ", "lts", "lts ", "latas ", "taza ",
     "dos ", "de ", "arroz", "Ají", "(b)", " opcional"}

RECURSIVE Phrases(_)
Phrases(k) ==
    IF k = 0 THEN {""}
    ELSE LET P == Phrases(k - 1) IN P \cup {p \o t : p \in P, t \in NormTokens}

NoKey == "(none)"

\* the extractor at rest, while the normaliser is exercised on its own
ExtIdle ==
    /\ soup = <<>>
    /\ lista_general = <<>>
    /\ lista_veggie = <<>>
    /\ recetas_por_dia = <<>>
    /\ retorno = FALSE
    /\ items_compartidos = FALSE
    /\ item_to_days = <<>>
    /\ item_to_days_veggie = <<>>
    /\ match_log = <<>>
    /\ resultado = <<>>
    /\ raised = FALSE
    /\ pc = "idle"

NormInit ==
    /\ raw \in Phrases(MaxTokens)
    /\ key = NoKey
    /\ rekey = NoKey
    /\ npc = "input"
    /\ ExtIdle
    /\ DiscIdle
    /\ CatIdle
    /\ ResetIdle

Normalize ==
    /\ npc = "input"
    /\ key' = _norm_ing(raw)
    /\ npc' = "normalized"
    /\ UNCHANGED <<raw, rekey, extVars, discVars, catVars, resetVars>>

Renormalize ==
    /\ npc = "normalized"
    /\ rekey' = _norm_ing(key)
    /\ npc' = "renormalized"
    /\ UNCHANGED <<raw, key, extVars, discVars, catVars, resetVars>>

NormNext == Normalize \/ Renormalize

SpecNorm == NormInit /\ [][NormNext]_vars

(***************************************************************************)
(* Claims about the normaliser.                                            *)
(***************************************************************************)

\* C1: normalisation is idempotent: normalising an already-normalised key
\* returns it unchanged.
C1_Idempotent == npc = "renormalized" => rekey = key

\* the unit table of the normaliser, as a set of tokens
UnitTokens == Range(UnitAlternatives)

\* digits, fraction glyphs and separators only, with at least one digit or glyph
RECURSIVE AllIn(_, _, _)
AllIn(s, i, C) == i > Len(s) \/ (At(s, i) \in C /\ AllIn(s, i + 1, C))

DigitsAndGlyphs == Digits \cup {"½", "¼", "¾"}

IsQuantityText(q) ==
    /\ AllIn(q, 1, DigitsAndGlyphs \cup {" ", "/", ",", "."})
    /\ \E i \in 1..Len(q) : At(q, i) \in DigitsAndGlyphs

\* s is a quantity alone, or a quantity followed by exactly one unit token
IsQuantityAndUnit(s) ==
    \/ IsQuantityText(s)
    \/ \E i \in 1..Len(s) :
          /\ IsQuantityText(SubSeq(s, 1, i))
          /\ SubSeq(s, i + 1, Len(s)) \in UnitTokens

\* C2: a phrase that is only a quantity, optionally followed by one unit
\* token of the unit table, normalises to the empty key.
C2_QuantityOnlyIsEmpty ==
    (npc = "normalized" /\ IsQuantityAndUnit(raw)) => key = ""

\* C3: a leading "<digits> <unit> " is removed whole: the key of
\* "<digits> <unit> <w>" is the key of w, for every unit token of the table
\* and every w that does not start with a quantity character.
C3_LeadingQuantityUnitRemoved ==
    npc = "normalized" =>
        \A i \in 1..Len(raw), j \in 1..Len(raw) :
            LET d == SubSeq(raw, 1, i)
                u == SubSeq(raw, i + 2, j)
                w == SubSeq(raw, j + 2, Len(raw))
            IN  (/\ i + 2 <= j /\ j + 2 <= Len(raw)
                 /\ AllIn(d, 1, Digits)
                 /\ At(raw, i + 1) = " "
                 /\ u \in UnitTokens
                 /\ At(raw, j + 1) = " "
                 /\ ~IsQtyChar(At(Lower(w), 1)))
                => key = _norm_ing(w)


\* C17: generar_json never ends in an error: after extraer() it returns a
\* result, also when the general list is not empty and a day has ingredients.
C17_GenerarJsonReturns ==
    pc = "json" => (~raised /\ resultado # NoResult)

\* C18: in general mode extraer() returns False exactly when it found no
\* shopping-list item and no day recipe; a document with day recipes is not
\* reported as a failure.
C18_FalseOnlyOnTotalFailure ==
    pc = "extraido" =>
        (retorno = FALSE <=>
            (/\ TotalItems(lista_general) = 0
             /\ TotalItems(lista_veggie) = 0
             /\ recetas_por_dia = <<>>))

(***************************************************************************)
(* The category classifier on its own: a text is classified once.          *)
(***************************************************************************)
\* a character in lower and in upper case
BothCases(c) == {c, IF c \in DOMAIN UpperTable THEN UpperTable[c] ELSE c}

\* every spelling of s from index i on, each letter in either case
RECURSIVE Cases(_, _)
Cases(s, i) ==
    IF i > Len(s) THEN {""}
    ELSE {c \o r : c \in BothCases(At(s, i)), r \in Cases(s, i + 1)}

\* the keywords of the table written with an accent
AccentedKeywords ==
    {CATEGORIAS_MAP[k][1] : k \in {j \in 1..Len(CATEGORIAS_MAP) :
                                    StripAccents(CATEGORIAS_MAP[j][1]) # CATEGORIAS_MAP[j][1]}}

CatTokens == {"carnes", "Supermercado", "VERDULERÍA", "casa", "yapa", " y ", "pan",
              "seguro", "comodin"}

RECURSIVE CatPhrases(_)
CatPhrases(k) ==
    IF k = 0 THEN {""}
    ELSE LET P == CatPhrases(k - 1) IN P \cup {p \o t : p \in P, t \in CatTokens}

CatInputs ==
    CatPhrases(MaxTokens)
        \cup UNION {Cases(kw, 1) \cup Cases(StripAccents(kw), 1) : kw \in AccentedKeywords}

CatInit ==
    /\ cat_texto \in CatInputs
    /\ categoria = <<>>
    /\ cpc = "entrada"
    /\ NormIdle
    /\ ResetIdle
    /\ ExtIdle
    /\ DiscIdle

Clasificar ==
    /\ cpc = "entrada"
    /\ categoria' = _detectar_categoria(cat_texto)
    /\ cpc' = "clasificado"
    /\ UNCHANGED <<cat_texto, normVars, extVars, discVars, resetVars>>

CatNext == Clasificar

SpecCat == CatInit /\ [][CatNext]_vars

\* the table row of a keyword, as a (name, order) pair
ParDe(kw) ==
    LET k == CHOOSE j \in 1..Len(CATEGORIAS_MAP) : CATEGORIAS_MAP[j][1] = kw
    IN  <<CATEGORIAS_MAP[k][2], CATEGORIAS_MAP[k][3]>>

\* C15: a keyword that has an accented spelling is classified alike in its
\* accented and in its unaccented spelling, whatever the case of its letters:
\* every such text gets the (name, order) pair of the keyword's table row.
C15_AccentInsensitive ==
    cpc = "clasificado" =>
        \A kw \in AccentedKeywords :
            StripAccents(Lower(cat_texto)) = StripAccents(kw) => categoria = ParDe(kw)

\* an unaccented, mixed-case spelling of an accented keyword has been classified
C15_Witness ==
    /\ cpc = "clasificado"
    /\ cat_texto = "VerduLERIA"
    /\ categoria = <<"Verdulería", 4>>

\* index of the first table row from k on whose keyword is in t (0 if none)
RECURSIVE PrimeraFila(_, _)
PrimeraFila(t, k) ==
    IF k > Len(CATEGORIAS_MAP) THEN 0
    ELSE IF Contains(t, CATEGORIAS_MAP[k][1]) THEN k
    ELSE PrimeraFila(t, k + 1)

\* C16: classifying always yields one result, fixed by the text: the pair of
\* the first table row whose keyword is a substring of the lower-cased text,
\* ("Otros", 99) exactly when no keyword is a substring; nothing else changes.
C16_FirstKeywordInTableOrder ==
    [][cpc' = "clasificado" =>
          LET k == PrimeraFila(Lower(cat_texto), 1)
              ninguna == \A j \in 1..Len(CATEGORIAS_MAP) :
                             ~Contains(Lower(cat_texto), CATEGORIAS_MAP[j][1])
          IN  /\ k # 0 => categoria' = <<CATEGORIAS_MAP[k][2], CATEGORIAS_MAP[k][3]>>
              /\ (categoria' = <<"Otros", 99>>) <=> ninguna
              /\ UNCHANGED <<cat_texto, normVars, extVars, discVars>>]_vars

\* a text whose first keyword is a later table row than its second keyword
C16_Witness ==
    /\ cpc = "clasificado"
    /\ cat_texto = "casacarnes"
    /\ categoria = <<"Carnes", 2>>

(***************************************************************************)
(* MenuDiscoverer.descubrir_menus and PaulinaExtractor's week detection.   *)
(* The landing page is a sequence of links [href, texto]; hrefs are        *)
(* absolute URLs or paths from the site root.                              *)
(***************************************************************************)
MENU_PAGE_URL == "https://almacen.paulinacocina.net/menu-semanal/"

\* first index at or after i of a character of chars (Len(s) + 1 if none)
RECURSIVE IndexFrom(_, _, _)
IndexFrom(s, chars, i) ==
    IF i > Len(s) \/ At(s, i) \in chars THEN i ELSE IndexFrom(s, chars, i + 1)

\* index of "://" in an absolute URL (0 if the text has no scheme)
SchemeEnd(url) ==
    LET I == {i \in 1..Len(url) : StartsWithAt(url, i, "://")}
    IN  IF I = {} THEN 0 ELSE First(I)

\* index of the first character after scheme://netloc
PathStart(url) == IndexFrom(url, {"/", "?", "#"}, SchemeEnd(url) + 3)

\* urljoin(base, href): an absolute href stands, a path from the root
\* replaces the path of base, any other href is resolved in base's directory
urljoin(base, href) ==
    IF SchemeEnd(href) # 0 THEN href
    ELSE IF StartsWith(href, "/") THEN SubSeq(base, 1, PathStart(base) - 1) \o href
    ELSE base \o href

\* f"{parsed.scheme}://{parsed.netloc}{parsed.path}": the URL without
\* query and fragment
CleanUrl(full_url) == SubSeq(full_url, 1, IndexFrom(full_url, {"?", "#"}, 1) - 1)

\* parsed.path
UrlPath(clean_url) == SubSeq(clean_url, PathStart(clean_url), Len(clean_url))

RECURSIVE SkipSlashes(_, _)
SkipSlashes(s, i) == IF i <= Len(s) /\ At(s, i) = "/" THEN SkipSlashes(s, i + 1) ELSE i

RECURSIVE SkipSlashesBack(_, _)
SkipSlashesBack(s, j) == IF j >= 1 /\ At(s, j) = "/" THEN SkipSlashesBack(s, j - 1) ELSE j

\* path.strip('/')
StripSlashes(s) == SubSeq(s, SkipSlashes(s, 1), SkipSlashesBack(s, Len(s)))

\* s.split('/')[-1]
LastSegment(s) ==
    LET I == {i \in 1..Len(s) : At(s, i) = "/"}
    IN  IF I = {} THEN s ELSE SubSeq(s, (CHOOSE i \in I : \A m \in I : m <= i) + 1, Len(s))

HyphenTable == Table("-", " ")

Letters == {At(LowerChars, i) : i \in 1..Len(LowerChars)}
               \cup {At(UpperChars, i) : i \in 1..Len(UpperChars)}

\* str.title(): a letter is upper-cased after a non-letter, lower-cased after a letter
RECURSIVE Title(_, _)
Title(s, i) ==
    IF i > Len(s) THEN ""
    ELSE LET c == At(s, i)
             after_letter == i > 1 /\ At(s, i - 1) \in Letters
         IN  (IF after_letter
              THEN (IF c \in DOMAIN LowerTable THEN LowerTable[c] ELSE c)
              ELSE (IF c \in DOMAIN UpperTable THEN UpperTable[c] ELSE c))
                 \o Title(s, i + 1)

\* lines 201-207: the link's text, else "Menú"; a title shorter than 3
\* characters is replaced by the last segment of the path, in title case
TituloDe(texto_link, clean_url) ==
    LET titulo == IF Strip(texto_link) # "" THEN Strip(texto_link) ELSE "Menú"
    IN  IF Len(titulo) < 3
        THEN Title(Translate(LastSegment(StripSlashes(UrlPath(clean_url))), HyphenTable, 1), 1)
        ELSE titulo

\* lines 210-213
TipoDe(clean_url, titulo) ==
    IF Contains(Lower(clean_url), "especial") \/ Contains(Lower(titulo), "especial")
    THEN "especial" ELSE "semanal"

\* int() of a run of digits
DigitValue(c) == CHOOSE d \in 0..9 : At("0123456789", d + 1) = c

RECURSIVE ParseInt(_, _, _)
ParseInt(s, i, acc) ==
    IF i > Len(s) \/ ~IsDigit(At(s, i)) THEN acc
    ELSE ParseInt(s, i + 1, acc * 10 + DigitValue(At(s, i)))

\* semana is None
SinSemana == -1

\* where the digits of  semana[- ]?(\d+)  start when "semana" is at index i
\* (0 when the pattern does not match there)
DigitsAfterSemana(url_lower, i) ==
    LET j == i + 6
    IN  IF j + 1 <= Len(url_lower) /\ At(url_lower, j) \in {"-", " "}
           /\ IsDigit(At(url_lower, j + 1)) THEN j + 1
        ELSE IF j <= Len(url_lower) /\ IsDigit(At(url_lower, j)) THEN j
        ELSE 0

\* lines 216-217: re.search(r'semana[- ]?(\d+)', clean_url, re.I)
SemanaDe(clean_url) ==
    LET u == Lower(clean_url)
        I == {i \in 1..Len(u) : StartsWithAt(u, i, "semana") /\ DigitsAfterSemana(u, i) # 0}
    IN  IF I = {} THEN SinSemana ELSE ParseInt(u, DigitsAfterSemana(u, First(I)), 0)

\* line 189
EsLinkDeMenu(href) == Contains(href, "/menu/") \/ Contains(href, "/menu-semana")

\* lines 219-224: the entry of a link
MenuDe(link) ==
    LET clean_url == CleanUrl(urljoin(MENU_PAGE_URL, link.href))
        titulo == TituloDe(link.texto, clean_url)
    IN  [url |-> clean_url, titulo |-> titulo, tipo |-> TipoDe(clean_url, titulo),
         semana |-> SemanaDe(clean_url)]

\* a walk that keeps no set of seen URLs
RECURSIVE RecorrerSinVistos(_, _, _)
RecorrerSinVistos(links, i, acc) ==
    IF i > Len(links) THEN acc
    ELSE IF ~EsLinkDeMenu(links[i].href) THEN RecorrerSinVistos(links, i + 1, acc)
    ELSE RecorrerSinVistos(links, i + 1, Append(acc, MenuDe(links[i])))

\* lines 185-224: the entries of the links that pass the filter, one per clean URL
RECURSIVE RecorrerLinks(_, _, _)
RecorrerLinks(links, i, acc) ==
    IF i > Len(links) THEN acc
    ELSE IF ~EsLinkDeMenu(links[i].href)
              \/ \E k \in 1..Len(acc) : acc[k].url = MenuDe(links[i]).url
         THEN RecorrerLinks(links, i + 1, acc)
         ELSE RecorrerLinks(links, i + 1, Append(acc, MenuDe(links[i])))

\* line 227: x sorts before y (specials first, then higher weeks, None as 0)
SemanaOCero(m) == IF m.semana = SinSemana THEN 0 ELSE m.semana

MenuAntes(x, y) ==
    \/ (x.tipo = "especial" /\ y.tipo # "especial")
    \/ (((x.tipo = "especial") = (y.tipo = "especial")) /\ SemanaOCero(x) > SemanaOCero(y))

\* the entries left in page order
MenusSinOrdenar(ms) == ms

\* list.sort(key=...): a stable sort
RECURSIVE OrdenarMenus(_)
OrdenarMenus(ms) ==
    IF ms = <<>> THEN <<>>
    ELSE LET rest == OrdenarMenus(SubSeq(ms, 1, Len(ms) - 1))
             x == ms[Len(ms)]
             before == {k \in 1..Len(rest) : MenuAntes(x, rest[k])}
             pos == IF before = {} THEN Len(rest) + 1 ELSE First(before)
         IN  SubSeq(rest, 1, pos - 1) \o <<x>> \o SubSeq(rest, pos, Len(rest))

\* lines 172-232: [] when the request fails, else the sorted entries
descubrir_menus(links, falla) ==
    IF falla THEN <<>> ELSE OrdenarMenus(RecorrerLinks(links, 1, <<>>))

\* line 295: range(20, 0, -1)
MaxSemanaBuscada == 20

\* lines 289-303: the weeks from 20 down to 1 whose page answers 200
RECURSIVE SemanasDesde(_, _)
SemanasDesde(n, ok) ==
    IF n < 1 THEN <<>>
    ELSE (IF n \in ok THEN <<n>> ELSE <<>>) \o SemanasDesde(n - 1, ok)

listar_semanas_disponibles(ok) == SemanasDesde(MaxSemanaBuscada, ok)

Link(href, texto) == [href |-> href, texto |-> texto]

LinkPool ==
    {Link("/menu-semanal/", "Menú Semanal"),
     Link("/menu-semana-5/", "Semana 5"),
     Link("https://almacen.paulinacocina.net/menu-semana-5/?ref=home", ""),
     Link("/menu-semana-7/", "7"),
     Link("/menu/locro-patrio/", "Locro"),
     Link("/menu-especial-navidad/", "Menú Especial Navidad"),
     Link("/menu/fiestas/", "Especial fiestas"),
     Link("/recetas/", "Recetas")}

MaxEnlaces == 2     \* links of the landing page

SemanasPool == {5, 6}

DiscInit ==
    /\ enlaces \in Seqs(LinkPool, MaxEnlaces)
    /\ falla_red \in BOOLEAN
    /\ responden \in SUBSET SemanasPool
    /\ menus = <<>>
    /\ disponibles = <<>>
    /\ semana = 0
    /\ dpc = "inicio"
    /\ NormIdle
    /\ ResetIdle
    /\ ExtIdle
    /\ CatIdle

DescubrirMenus ==
    /\ dpc = "inicio"
    /\ menus' = descubrir_menus(enlaces, falla_red)
    /\ dpc' = "descubierto"
    /\ UNCHANGED <<enlaces, falla_red, responden, disponibles, semana,
                   normVars, extVars, catVars, resetVars>>

\* lines 281-287
DetectarSemanaActual ==
    /\ dpc \in {"inicio", "descubierto"}
    /\ \E semanas \in {listar_semanas_disponibles(responden)} :
          /\ disponibles' = semanas
          /\ semana' = IF semanas # <<>> THEN semanas[1] ELSE 1
    /\ dpc' = "detectada"
    /\ UNCHANGED <<enlaces, falla_red, responden, menus, normVars, extVars, catVars, resetVars>>

DiscNext == DescubrirMenus \/ DetectarSemanaActual

SpecDisc == DiscInit /\ [][DiscNext]_vars

\* the week numbers of the weekly menus of a discovery
SemanasSemanales(ms) ==
    {ms[k].semana : k \in {j \in 1..Len(ms) :
                            ms[j].tipo = "semanal" /\ ms[j].semana # SinSemana}}

Maximo(S) == CHOOSE n \in S : \A m \in S : m <= n

\* C19: detectar_semana_actual returns the highest week among the weekly
\* menus that discovery reports; without any (discovery failed or found no
\* weekly menu) the first week of listar_semanas_disponibles(); else 1.
C19_HighestDiscoveredWeek ==
    dpc = "detectada" =>
        LET semanales == SemanasSemanales(descubrir_menus(enlaces, falla_red))
            semanas == listar_semanas_disponibles(responden)
        IN  semana = IF semanales # {} THEN Maximo(semanales)
                     ELSE IF semanas # <<>> THEN semanas[1]
                     ELSE 1

\* the path of the page a link leads to
PathDe(link) == UrlPath(CleanUrl(urljoin(MENU_PAGE_URL, link.href)))

EsLanding(link) == PathDe(link) = "/menu-semanal/"

\* /menu-semana-<n>/, /menu/<slug>/ or /menu-especial-<slug>/
EsPaginaDeMenu(link) ==
    \/ (StartsWith(PathDe(link), "/menu-semana-") /\ IsDigit(At(PathDe(link), 14)))
    \/ (StartsWith(PathDe(link), "/menu/") /\ Len(PathDe(link)) > 6)
    \/ (StartsWith(PathDe(link), "/menu-especial-") /\ Len(PathDe(link)) > 15)

TieneEntrada(link) ==
    \E k \in 1..Len(menus) : menus[k].url = CleanUrl(urljoin(MENU_PAGE_URL, link.href))

\* C20: the discovery never lists the landing page: a link to /menu-semanal/
\* gives no entry, while a link to /menu-semana-<n>/, /menu/<slug>/ or
\* /menu-especial-<slug>/ gives one.
C20_LandingPageExcluded ==
    (dpc = "descubierto" /\ ~falla_red) =>
        \A i \in 1..Len(enlaces) :
            /\ EsLanding(enlaces[i]) => ~TieneEntrada(enlaces[i])
            /\ EsPaginaDeMenu(enlaces[i]) => TieneEntrada(enlaces[i])

\* the links of the page that pass the filter and lead to url, by position
LinksHacia(url) ==
    {i \in 1..Len(enlaces) :
        /\ EsLinkDeMenu(enlaces[i].href)
        /\ CleanUrl(urljoin(MENU_PAGE_URL, enlaces[i].href)) = url}

\* C21: the discovery lists each menu URL (scheme, host and path, without the
\* query) at most once, and its entry is the one of the first link to it.
C21_EachUrlOnce ==
    dpc = "descubierto" =>
        /\ \A i, j \in 1..Len(menus) : menus[i].url = menus[j].url => i = j
        /\ \A k \in 1..Len(menus) :
              /\ LinksHacia(menus[k].url) # {}
              /\ menus[k] = MenuDe(enlaces[First(LinksHacia(menus[k].url))])

\* two links with different texts lead to the same URL, and one entry is listed
C21_Witness ==
    /\ dpc = "descubierto"
    /\ Len(menus) = 1
    /\ Cardinality(LinksHacia(menus[1].url)) = 2
    /\ enlaces[1].texto # enlaces[2].texto

\* C22: in the discovery every special menu comes before every weekly menu,
\* and the weekly menus that carry a week number are in descending week order.
C22_SpecialsFirstWeeksDescending ==
    dpc = "descubierto" =>
        \A i, j \in 1..Len(menus) :
            i < j =>
                /\ ~(menus[i].tipo = "semanal" /\ menus[j].tipo = "especial")
                /\ (/\ menus[i].tipo = "semanal" /\ menus[j].tipo = "semanal"
                    /\ menus[i].semana # SinSemana /\ menus[j].semana # SinSemana)
                       => menus[i].semana >= menus[j].semana

\* the page lists week 5 before week 7, the discovery week 7 before week 5
C22_Witness ==
    /\ dpc = "descubierto"
    /\ Len(enlaces) = 2 /\ Len(menus) = 2
    /\ SemanaDe(enlaces[1].href) = 5 /\ SemanaDe(enlaces[2].href) = 7
    /\ menus[1].semana = 7 /\ menus[2].semana = 5

(***************************************************************************)
(* The container walk on lists with several headings.                      *)
(***************************************************************************)
CursorNodePool ==
    {Node("strong", "Carnes"), Node("strong", "Ofertas"),
     [Node("h2", "Verduleria") EXCEPT !.clase = "elementor-heading-title"],
     Node("label", "arroz"), Node("label", "[ ] pollo")}

CursorInit ==
    /\ soup \in {<<Block("lista_compra_g", nodes)>> : nodes \in Seqs(CursorNodePool, MaxNodes)}
    /\ ExtFresh
    /\ NormIdle
    /\ ResetIdle
    /\ DiscIdle
    /\ CatIdle

CursorNext == Extraer

SpecCursor == CursorInit /\ [][CursorNext]_vars

\* the headings before index i whose text names a category of the table
Reconocidos(nodes, i) ==
    {j \in 1..(i - 1) :
        /\ nodes[j].name = "strong" \/ Contains(nodes[j].clase, "heading")
        /\ PrimeraFila(Lower(Strip(nodes[j].texto)), 1) # 0}

\* the (name, order) of the last recognised heading before index i
UltimoEncabezado(nodes, i) ==
    IF Reconocidos(nodes, i) = {} THEN <<"Supermercado", 1>>
    ELSE LET j == CHOOSE k \in Reconocidos(nodes, i) : \A m \in Reconocidos(nodes, i) : m <= k
             f == PrimeraFila(Lower(Strip(nodes[j].texto)), 1)
         IN  <<CATEGORIAS_MAP[f][2], CATEGORIAS_MAP[f][3]>>

\* the cursor of the walk after the first i nodes
CursorTras(nodes, i) ==
    LET st == Walk(SubSeq(nodes, 1, i), 1, WalkInicial)
    IN  <<st.categoria_actual, st.orden_actual>>

FiledUnder(lista, par, texto) ==
    \E c \in 1..Len(lista) :
        /\ lista[c].cat = par[1] /\ lista[c].orden = par[2]
        /\ \E k \in 1..Len(lista[c].items) : lista[c].items[k] = texto

\* C23: in the container walk the cursor starts at Supermercado (order 1)
\* and after any prefix of the nodes it is the last heading before that
\* point that names a category of the table (a heading classified as Otros
\* moves nothing); every label is filed under the cursor at its position, and
\* every item of the result comes from such a label.
C23_CursorFollowsRecognisedHeadings ==
    pc = "extraido" =>
        LET nodes == soup[1].nodes
            labels == {i \in 1..Len(nodes) : nodes[i].name = "label"}
        IN  /\ \A i \in 0..Len(nodes) : CursorTras(nodes, i) = UltimoEncabezado(nodes, i + 1)
            /\ \A i \in labels :
                  FiledUnder(lista_general, UltimoEncabezado(nodes, i), CleanLabel(nodes[i]))
            /\ \A c \in 1..Len(lista_general) : \A k \in 1..Len(lista_general[c].items) :
                  \E i \in labels :
                      /\ CleanLabel(nodes[i]) = lista_general[c].items[k]
                      /\ UltimoEncabezado(nodes, i) = <<lista_general[c].cat, lista_general[c].orden>>

\* a label after a recognised heading and then a heading classified as Otros
C23_Witness ==
    /\ pc = "extraido"
    /\ Len(soup[1].nodes) = 4
    /\ soup[1].nodes[1].texto = "arroz"
    /\ soup[1].nodes[2].texto = "Carnes"
    /\ soup[1].nodes[3].texto = "Ofertas"
    /\ soup[1].nodes[4].texto = "[ ] pollo"
    /\ lista_general = <<[cat |-> "Supermercado", orden |-> 1, items |-> <<"arroz">>],
                         [cat |-> "Carnes", orden |-> 2, items |-> <<"pollo">>]>>

\* every item text of a list, whatever its category
RECURSIVE TodosLosItems(_)
TodosLosItems(lista) ==
    IF lista = <<>> THEN <<>> ELSE lista[1].items \o TodosLosItems(Tail(lista))

\* the document has no list container: the list comes from the page-wide scan
SinContenedor(doc) ==
    FindId(doc, "lista_compra_g") = NoElem /\ FindDataNombreLista(doc) = NoElem

\* C24: the list of the page-wide scan holds no item text twice under
\* case-insensitive comparison, within a category or across categories.
C24_AlternativeDedupGlobal ==
    (pc = "extraido" /\ SinContenedor(soup)) =>
        \A i, j \in 1..Len(TodosLosItems(lista_general)) :
            Lower(TodosLosItems(lista_general)[i]) = Lower(TodosLosItems(lista_general)[j])
                => i = j

\* the same text, in another case, stands under a second category of the page
C24_Witness ==
    /\ pc = "extraido"
    /\ SinContenedor(soup)
    /\ Len(soup[1].nodes) = 4
    /\ soup[1].nodes[1].texto = "arroz"
    /\ soup[1].nodes[2].texto = "Carnes"
    /\ soup[1].nodes[3].texto = "Arroz"
    /\ soup[1].nodes[4].texto = "pollo"
    /\ soup[1].nodes[2].name = "label"
    /\ lista_general = <<[cat |-> "Supermercado", orden |-> 1, items |-> <<"arroz">>],
                         [cat |-> "Carnes", orden |-> 1, items |-> <<"pollo">>]>>

(***************************************************************************)
(* The recipes of the days on their own (extraer in modo 'dias').          *)
(***************************************************************************)
\* c repeated n times
RECURSIVE Repetir(_, _)
Repetir(c, n) ==
    IF n = 0 THEN ""
    ELSE IF n % 2 = 0 THEN LET mitad == Repetir(c, n \div 2) IN mitad \o mitad
    ELSE c \o Repetir(c, n - 1)

\* candidates of one day: ingredients, an instruction, an empty label, texts
\* at the length limit, bare list items and a list item directly under ul
CandidatoPool ==
    {Node("label", "arroz"), Node("label", "Paso 1: hervir"), Node("label", "[ ]"),
     Node("label", "a"),
     Node("label", Repetir("a", MAX_INGREDIENT_LENGTH)),
     Node("label", Repetir("b", MAX_INGREDIENT_LENGTH + 1)),
     Node("li", "- caldo"), Node("li", "Servir frio"), NodeEn("li", "sal", "ul")}

MaxCandidatos == 3  \* candidates in the section of a day

CandidatoSoups ==
    {<<Block("", <<Node("h3", "Lunes")>> \o nodes)>> : nodes \in SeqsSinRepetir(CandidatoPool, MaxCandidatos)}

\* headings of a day's section: short ones, ones that name the day, a bold text
TituloPool ==
    {Node("h4", "Paella"), Node("h2", "Pizza"), Node("h3", "Guiso del MIERCOLES"),
     Node("h2", "Sopa de lunes"), Node("strong", "Guiso de lentejas"), Node("label", "arroz")}

MaxTitulos == 3     \* elements after the heading of the day

TituloSoups ==
    {<<Block("", <<Node("h3", dia)>> \o nodes)>> :
        dia \in {"Lunes", "Miércoles"}, nodes \in SeqsSinRepetir(TituloPool, MaxTitulos)}

MaxProfundidad == 6 \* divs nested around the heading of a day

\* divs 1..d nested in one another, the heading in the innermost and a label
\* in the p-th (p = 0: in none)
RECURSIVE Cadena(_, _, _, _)
Cadena(k, d, p, heading) ==
    IF k > d THEN <<>>
    ELSE <<BlockEn(k - 1, (IF k = p THEN <<Node("label", "arroz")>> ELSE <<>>)
                              \o (IF k = d THEN <<heading>> ELSE <<>>))>>
             \o Cadena(k + 1, d, p, heading)

EncabezadoPool ==
    {Node("h3", "Lunes"), Node("strong", "Lunes"), Node("h2", "Menú del LUNES"),
     Node("h3", "lunes" \o Repetir("x", MaxHeadingLength - 5)),
     Node("h3", "lunes" \o Repetir("x", MaxHeadingLength - 4)),
     Node("h3", "Jueves")}

\* a further heading of the day with a label of its own, and a div found by its id
OtroLunes == Block("", <<Node("h3", "Lunes"), Node("label", "pollo")>>)

PorId == Block("lunes", <<Node("label", "tofu")>>)

SeccionSoups ==
    {Cadena(1, d, p, heading) \o otro \o por_id :
        d \in 1..MaxProfundidad, p \in 0..MaxProfundidad, heading \in EncabezadoPool,
        otro \in {<<>>, <<OtroLunes>>}, por_id \in {<<>>, <<PorId>>}}

DiasInit ==
    /\ soup \in CandidatoSoups \cup TituloSoups \cup SeccionSoups
    /\ ExtFresh
    /\ NormIdle
    /\ ResetIdle
    /\ DiscIdle
    /\ CatIdle

DiasNext == ExtraerDias

SpecDias == DiasInit /\ [][DiasNext]_vars

\* the ingredients of the recipe of a day (none when the day has no recipe)
IngredientesDe(recetas, dia) ==
    IF \E r \in 1..Len(recetas) : recetas[r].dia = dia
    THEN recetas[CHOOSE r \in 1..Len(recetas) : recetas[r].dia = dia].ingredientes
    ELSE <<>>

\* C25: the ingredients of a day come from one tier only, the first that
\* gives any: the labels that pass the filters; else the list items; the
\* list items directly under ul/ol only when neither gave anything.
C25_FirstTierOnly ==
    (pc = "extraido" /\ soup \in CandidatoSoups) =>
        LET labels == Candidates(NodesNamed(soup[1].nodes, {"label"}), CheckboxGlyphs)
            lis == Candidates(NodesNamed(soup[1].nodes, {"li"}), ListItemGlyphs)
            directos == Candidates(DirectListItems(soup[1].nodes), ListItemGlyphs)
            ings == Range(IngredientesDe(recetas_por_dia, "Lunes"))
        IN  /\ labels # <<>> => ings = Range(labels)
            /\ (labels = <<>> /\ lis # <<>>) => ings = Range(lis)
            /\ (labels = <<>> /\ lis = <<>>) => ings = Range(directos)

\* a label and a list item both pass the filters: only the label is taken
C25_Witness ==
    /\ pc = "extraido"
    /\ soup \in CandidatoSoups
    /\ \E i, j \in 1..Len(soup[1].nodes) :
          /\ soup[1].nodes[i].texto = "- caldo"
          /\ soup[1].nodes[j].texto = "arroz"
    /\ IngredientesDe(recetas_por_dia, "Lunes") = <<"arroz">>

\* the claim's filter: empty, longer than 200 characters, or an instruction
DescartadoSegunSpec(t) ==
    \/ t = ""
    \/ Len(t) > 200
    \/ \E k \in 1..Len(INSTRUCTION_PATTERN) :
          StartsWith(Lower(SubSeq(t, 1, Min(Len(t), 7))), INSTRUCTION_PATTERN[k])

\* the cleaned texts of the nodes that the claim's filter keeps
TextosQueQuedan(nodes, glyphs) ==
    {CleanText(NodeText(nodes[i]), glyphs) : i \in 1..Len(nodes)}
        \ {t \in {CleanText(NodeText(nodes[i]), glyphs) : i \in 1..Len(nodes)} :
              DescartadoSegunSpec(t)}

\* C26: at every tier a candidate is discarded exactly when its cleaned text
\* is empty, longer than 200 characters or begins with an instruction stem;
\* any other candidate, one of exactly 200 characters too, is an ingredient.
C26_DiscardedExactlyWhen ==
    (pc = "extraido" /\ soup \in CandidatoSoups) =>
        LET labels == TextosQueQuedan(NodesNamed(soup[1].nodes, {"label"}), CheckboxGlyphs)
            lis == TextosQueQuedan(NodesNamed(soup[1].nodes, {"li"}), ListItemGlyphs)
        IN  Range(IngredientesDe(recetas_por_dia, "Lunes")) =
                IF labels # {} THEN labels ELSE lis

\* the first h2/h3/h4 from index i on with more than 5 characters that does
\* not name the day, with or without its accent ("" if none)
RECURSIVE PrimerTitulo(_, _, _)
PrimerTitulo(nodes, i, dia) ==
    IF i > Len(nodes) THEN ""
    ELSE IF /\ nodes[i].name \in {"h2", "h3", "h4"}
            /\ Len(Strip(nodes[i].texto)) > 5
            /\ ~Contains(Lower(nodes[i].texto), dia)
            /\ ~Contains(Lower(nodes[i].texto), StripAccents(dia))
         THEN Strip(nodes[i].texto)
    ELSE PrimerTitulo(nodes, i + 1, dia)

HayReceta(recetas, dia) == \E r \in 1..Len(recetas) : recetas[r].dia = dia

NombreDe(recetas, dia) ==
    recetas[CHOOSE r \in 1..Len(recetas) : recetas[r].dia = dia].nombre

\* C27: the name of a day's recipe is the text of the first h2/h3/h4 of its
\* section that has more than 5 characters and does not contain the day's
\* name, accented or not; it is "" when there is none, and a day with no
\* name and no ingredient is left out.
C27_RecipeName ==
    (pc = "extraido" /\ soup \in TituloSoups) =>
        LET dia == soup[1].nodes[1].texto
            nombre == PrimerTitulo(soup[1].nodes, 1, Lower(dia))
            sin_ingredientes == \A i \in 1..Len(soup[1].nodes) : soup[1].nodes[i].name # "label"
        IN  IF nombre = "" /\ sin_ingredientes
            THEN ~HayReceta(recetas_por_dia, dia)
            ELSE HayReceta(recetas_por_dia, dia) /\ NombreDe(recetas_por_dia, dia) = nombre

\* a short heading and one that names the day come before the recipe's name
C27_Witness ==
    /\ pc = "extraido"
    /\ soup = <<Block("", <<Node("h3", "Miércoles"), Node("h2", "Pizza"),
                            Node("h3", "Guiso del MIERCOLES"), Node("h4", "Paella")>>)>>
    /\ recetas_por_dia = <<[dia |-> "Miércoles", nombre |-> "Paella", ingredientes |-> <<>>]>>

\* div a and the divs around it, from the inside out, at most n of them;
\* body (0) stands for the whole document and ends the chain
RECURSIVE AncestrosConBody(_, _, _)
AncestrosConBody(doc, a, n) ==
    IF n = 0 THEN <<>>
    ELSE IF a = 0 THEN <<0>>
    ELSE <<a>> \o AncestrosConBody(doc, doc[a].padre, n - 1)

\* the same chain without body
AncestrosBajoBody(doc, a, n) ==
    LET ancs == AncestrosConBody(doc, a, n)
    IN  Pick(ancs, {k \in 1..Len(ancs) : ancs[k] # 0}, 1)

\* the divs inside a (all of them when a is body)
Dentro(doc, a) ==
    IF a = 0 THEN 1..Len(doc)
    ELSE {j \in 1..Len(doc) : a \in Range(AncestrosBajoBody(doc, j, Len(doc)))}

RECURSIVE Aplanar(_)
Aplanar(blocks) == IF blocks = <<>> THEN <<>> ELSE blocks[1].nodes \o Aplanar(Tail(blocks))

\* the leaf elements inside a, in document order
NodosDentro(doc, a) == Aplanar(Pick(doc, Dentro(doc, a), 1))

ConLabelOLi(doc, a) ==
    \E i \in 1..Len(NodosDentro(doc, a)) : NodosDentro(doc, a)[i].name \in {"label", "li"}

\* the div of the first h2/h3/h4/strong of at most 80 characters that names lunes
DivDelPrimerLunes(doc) ==
    LET I == {j \in 1..Len(doc) :
                 \E i \in 1..Len(doc[j].nodes) :
                     /\ doc[j].nodes[i].name \in {"h2", "h3", "h4", "strong"}
                     /\ Len(Strip(doc[j].nodes[i].texto)) <= 80
                     /\ Contains(Lower(doc[j].nodes[i].texto), "lunes")}
    IN  IF I = {} THEN 0 ELSE First(I)

\* the recipe of Lunes read from the given leaf elements (<<>> when it is left out)
RecetaLunesEn(nodes) ==
    LET section == [nodes |-> nodes]
    IN  IF NombreReceta(section, "lunes") = "" /\ Ingredientes(section) = <<>> THEN <<>>
        ELSE <<[dia |-> "Lunes", nombre |-> NombreReceta(section, "lunes"),
                ingredientes |-> Ingredientes(section)]>>

\* the recipe of Lunes when the section is the first of ancs that holds a
\* label or a list item, and the heading's own div when none does; without a
\* heading of the day, the div found by id
RecetaLunesSegun(doc, ancs) ==
    LET h == DivDelPrimerLunes(doc)
        I == {k \in 1..Len(ancs) : ConLabelOLi(doc, ancs[k])}
    IN  IF h = 0
        THEN (IF SectionById(doc, "lunes") = NoElem THEN <<>>
              ELSE RecetaLunesEn(NodosDentro(doc, SectionById(doc, "lunes"))))
        ELSE RecetaLunesEn(NodosDentro(doc, IF I = {} THEN h ELSE ancs[First(I)]))

RecetaLunes == Pick(recetas_por_dia, {r \in 1..Len(recetas_por_dia) : recetas_por_dia[r].dia = "Lunes"}, 1)

\* C28 as stated: the section of a day is the nearest of the up to 5
\* ancestors of the first heading naming the day (h2/h3/h4/strong, at most 80
\* characters) that holds a label or li, the heading's parent if none does;
\* later headings are not used, the id lookup only when no heading matched.
C28_NearestOfFiveAncestors ==
    (pc = "extraido" /\ soup \in SeccionSoups) =>
        RecetaLunes = RecetaLunesSegun(soup, AncestrosConBody(soup, DivDelPrimerLunes(soup), 5))

\* C28 amended: as above, the ancestors being those below body: body and
\* the document are never taken as the section by the climb.
C28_NearestAncestorBelowBody ==
    (pc = "extraido" /\ soup \in SeccionSoups) =>
        RecetaLunes = RecetaLunesSegun(soup, AncestrosBajoBody(soup, DivDelPrimerLunes(soup), 5))

\* the heading lies three divs deep, the label in the outermost of them, and
\* a later heading of the day has a label of its own
C28_Witness ==
    /\ pc = "extraido"
    /\ soup = Cadena(1, 3, 1, Node("h3", "Lunes")) \o <<OtroLunes>>
    /\ recetas_por_dia = <<[dia |-> "Lunes", nombre |-> "", ingredientes |-> <<"arroz">>]>>

\* the document has a vegetarian section of its own that gave a list
VeggiePropia ==
    /\ FindId(soup, "lista_compra_v") # NoElem
    /\ lista_veggie = WalkContainer(soup[FindId(soup, "lista_compra_v")].nodes)
    /\ lista_veggie # <<>>

\* C29: when the vegetarian list comes from the document's own vegetarian
\* section and there are day recipes, generar_json emits item_to_days_veggie,
\* built from the vegetarian list alone, also when that list has the same
\* content as the general one.
C29_VeggieMappingEmitted ==
    (pc = "json" /\ VeggiePropia /\ recetas_por_dia # <<>>) =>
        /\ resultado # NoResult
        /\ resultado.con_item_to_days_veggie
        /\ resultado.item_to_days_veggie =
              MapRecetas(NormToItems(lista_veggie), recetas_por_dia, 1,
                         [item_to_days |-> <<>>, log |-> <<>>]).item_to_days

(***************************************************************************)
(* main --reset-db (lines 1344-1424): backup of the Firestore collection   *)
(* paulina_menus, deletion of its documents, discovery of the active menus *)
(* and upload of each of them.                                             *)
(***************************************************************************)
\* \w of the regular expressions: letters, digits and the underscore
WordChars == Letters \cup Digits \cup {"_"}

\* re.sub(r'[^\w]+', '_', s): every run of other characters becomes one "_"
RECURSIVE SubNoWord(_, _)
SubNoWord(s, i) ==
    IF i > Len(s) THEN ""
    ELSE IF At(s, i) \in WordChars THEN At(s, i) \o SubNoWord(s, i + 1)
    ELSE IF i > 1 /\ At(s, i - 1) \notin WordChars THEN SubNoWord(s, i + 1)
    ELSE "_" \o SubNoWord(s, i + 1)

RECURSIVE SkipUnderscores(_, _)
SkipUnderscores(s, i) ==
    IF i <= Len(s) /\ At(s, i) = "_" THEN SkipUnderscores(s, i + 1) ELSE i

RECURSIVE SkipUnderscoresBack(_, _)
SkipUnderscoresBack(s, j) ==
    IF j >= 1 /\ At(s, j) = "_" THEN SkipUnderscoresBack(s, j - 1) ELSE j

\* line 1416: [:40]
MaxSlug == 40

\* line 1416: re.sub(r'[^\w]+', '_', titulo.lower()).strip('_')[:40]
Slug(titulo) ==
    LET t == SubNoWord(Lower(titulo), 1)
        u == SubSeq(t, SkipUnderscores(t, 1), SkipUnderscoresBack(t, Len(t)))
    IN  SubSeq(u, 1, IF Len(u) < MaxSlug THEN Len(u) ELSE MaxSlug)

\* line 329: title_tag.text.split(' - ')[0].strip(); "" without a title tag
TituloPagina(title) ==
    LET I == {i \in 1..Len(title) : StartsWithAt(title, i, " - ")}
    IN  Strip(IF I = {} THEN title ELSE SubSeq(title, 1, First(I) - 1))

\* lines 333-335: the week of an extractor built without one, from its URL
\* and the title of its page
SemanaDescargada(menu, titulo) ==
    IF menu.tipo = "semanal" THEN menu.semana ELSE SemanaDe(menu.url \o titulo)

\* lines 1395 and 1413-1417: the document the extractor's data goes to
\* (semana_N of upload, line 1190; especial_<slug> of upload_especial, line 1208)
DocDe(extractor) ==
    IF extractor.tipo = "semanal" \/ extractor.semana \notin {SinSemana, 0}
    THEN "semana_" \o ToString(extractor.semana)
    ELSE "especial_" \o Slug(extractor.titulo)

\* lines 1371-1372: the weekly menus with a week, then the special ones
RECURSIVE Filtrar(_, _)
Filtrar(ms, especial) ==
    IF ms = <<>> THEN <<>>
    ELSE (IF (especial /\ ms[1].tipo = "especial")
             \/ (~especial /\ ms[1].tipo = "semanal" /\ ms[1].semana \notin {SinSemana, 0})
          THEN <<ms[1]>> ELSE <<>>) \o Filtrar(Tail(ms), especial)

MenusAProcesar(ms) == Filtrar(ms, FALSE) \o Filtrar(ms, TRUE)

\* lines 1348-1352: the uploader; without a Firestore client main returns 1
ResetConectar ==
    /\ rpc = "inicio"
    /\ rpc' = IF db THEN "backup" ELSE "fin"
    /\ codigo' = IF db THEN codigo ELSE 1
    /\ UNCHANGED <<db, coleccion, respaldo, borrados, pasos, pendientes, en_curso, exitosas,
                   normVars, extVars, discVars, catVars>>

\* lines 1354-1357 and 1222-1246: backup_menus writes the documents to a
\* file and returns True (True without a file when there are none), or an
\* exception of the read or of the write makes it return False; main does
\* not look at what it returns
ResetBackup ==
    /\ rpc = "backup"
    /\ \E falla \in BOOLEAN :
          respaldo' = IF falla THEN [ret |-> FALSE, archivo |-> NoFile]
                      ELSE IF coleccion = {} THEN [ret |-> TRUE, archivo |-> NoFile]
                      ELSE [ret |-> TRUE, archivo |-> [escrito |-> TRUE, menus |-> coleccion]]
    /\ pasos' = Append(pasos, "backup")
    /\ rpc' = "delete"
    /\ UNCHANGED <<db, coleccion, borrados, pendientes, en_curso, exitosas, codigo,
                   normVars, extVars, discVars, catVars>>

\* lines 1359-1361 and 1248-1265: delete_all_menus deletes the documents one
\* by one; an exception stops it with the rest undeleted
ResetBorrar ==
    /\ rpc = "delete"
    /\ \E b \in SUBSET coleccion :
          /\ borrados' = b
          /\ coleccion' = coleccion \ b
    /\ pasos' = Append(pasos, "delete")
    /\ rpc' = "discover"
    /\ UNCHANGED <<db, respaldo, pendientes, en_curso, exitosas, codigo,
                   normVars, extVars, discVars, catVars>>

\* lines 1363-1378: the active menus; with none main returns 0
ResetDescubrir ==
    /\ rpc = "discover"
    /\ \E ms \in {descubrir_menus(enlaces, falla_red)} :
          /\ menus' = ms
          /\ pendientes' = MenusAProcesar(ms)
          /\ rpc' = IF ms = <<>> THEN "fin" ELSE "procesar"
          /\ codigo' = IF ms = <<>> THEN 0 ELSE codigo
    /\ exitosas' = 0
    /\ pasos' = Append(pasos, "discover")
    /\ UNCHANGED <<db, coleccion, respaldo, borrados, en_curso,
                   enlaces, falla_red, responden, disponibles, semana, dpc,
                   normVars, extVars, catVars>>

\* the pages a menu URL may answer with: the text of the title tag and the body
Pagina(title, doc) == [title |-> title, soup |-> doc]

PaginasReset ==
    {Pagina("Especial Fiestas - Paulina Cocina", <<Block("lista_compra_g", Labels(<<"arroz">>))>>),
     Pagina("Menú semana 7", <<Block("lista_compra_g", Labels(<<"arroz">>))>>),
     Pagina("", <<>>),
     Pagina("Locro", <<Block("lista_compra_g", Labels(<<"arroz">>)),
                       Block("", <<Node("h3", "Lunes"), Node("label", "arroz")>>)>>)}

\* lines 1384-1388 and 1402-1406: a new extractor for the next menu and its
\* download; a failed download goes on with the menu after it
ResetDescargar ==
    /\ rpc = "procesar"
    /\ pendientes # <<>>
    /\ en_curso = NoMenu
    /\ pendientes' = Tail(pendientes)
    /\ \/ /\ \E pagina \in PaginasReset :
               /\ soup' = pagina.soup
               /\ en_curso' = [pendientes[1] EXCEPT
                                  !.titulo = TituloPagina(pagina.title),
                                  !.semana = SemanaDescargada(pendientes[1],
                                                              TituloPagina(pagina.title))]
          /\ lista_general' = <<>>
          /\ lista_veggie' = <<>>
          /\ recetas_por_dia' = <<>>
          /\ retorno' = FALSE
          /\ items_compartidos' = FALSE
          /\ item_to_days' = <<>>
          /\ item_to_days_veggie' = <<>>
          /\ match_log' = <<>>
          /\ resultado' = <<>>
          /\ raised' = FALSE
          /\ pc' = "descargado"
       \/ UNCHANGED <<en_curso, extVars>>
    /\ UNCHANGED <<db, coleccion, respaldo, borrados, pasos, exitosas, codigo, rpc,
                   normVars, discVars, catVars>>

\* lines 1390 and 1408: extractor.extraer()
ResetExtraer == rpc = "procesar" /\ en_curso # NoMenu /\ Extraer

\* lines 1390-1392 and 1408-1410: a menu whose extraction returns False is skipped
ResetSinExtraer ==
    /\ rpc = "procesar"
    /\ en_curso # NoMenu
    /\ pc = "extraido"
    /\ ~retorno
    /\ en_curso' = NoMenu
    /\ UNCHANGED <<db, coleccion, respaldo, borrados, pasos, pendientes, exitosas, codigo, rpc,
                   normVars, extVars, discVars, catVars>>

\* lines 1394 and 1412: extractor.generar_json()
ResetGenerar == rpc = "procesar" /\ en_curso # NoMenu /\ retorno /\ GenerarJson

\* lines 1395-1396 and 1413-1418: the upload, which may fail, counts as a success
ResetSubir ==
    /\ rpc = "procesar"
    /\ en_curso # NoMenu
    /\ pc = "json"
    /\ ~raised
    /\ \E sube \in BOOLEAN :
          coleccion' = IF sube THEN coleccion \cup {DocDe(en_curso)} ELSE coleccion
    /\ exitosas' = exitosas + 1
    /\ pasos' = Append(pasos, "upload")
    /\ en_curso' = NoMenu
    /\ UNCHANGED <<db, respaldo, borrados, pendientes, codigo, rpc,
                   normVars, extVars, discVars, catVars>>

\* the NameError of generar_json leaves main
ResetAbortar ==
    /\ rpc = "procesar"
    /\ en_curso # NoMenu
    /\ pc = "json"
    /\ raised
    /\ rpc' = "abortado"
    /\ UNCHANGED <<db, coleccion, respaldo, borrados, pasos, pendientes, en_curso, exitosas,
                   codigo, normVars, extVars, discVars, catVars>>

\* lines 1420-1424
ResetTerminar ==
    /\ rpc = "procesar"
    /\ pendientes = <<>>
    /\ en_curso = NoMenu
    /\ codigo' = IF exitosas > 0 THEN 0 ELSE 1
    /\ rpc' = "fin"
    /\ UNCHANGED <<db, coleccion, respaldo, borrados, pasos, pendientes, en_curso, exitosas,
                   normVars, extVars, discVars, catVars>>

ResetLinks ==
    {Link("/menu-semana-5/", "Semana 5"),
     Link("/menu/fiestas/", "Especial fiestas"),
     Link("/menu/locro-patrio/", "Locro")}

ColeccionPool == {"semana_4", "especial_pascua"}

ResetInit ==
    /\ db \in BOOLEAN
    /\ coleccion \in SUBSET ColeccionPool
    /\ respaldo = [ret |-> FALSE, archivo |-> NoFile]
    /\ borrados = {}
    /\ pasos = <<>>
    /\ pendientes = <<>>
    /\ en_curso = NoMenu
    /\ exitosas = 0
    /\ codigo = -1
    /\ rpc = "inicio"
    /\ enlaces \in Seqs(ResetLinks, MaxEnlaces)
    /\ falla_red \in BOOLEAN
    /\ menus = <<>>
    /\ responden = {}
    /\ disponibles = <<>>
    /\ semana = 0
    /\ dpc = "idle"
    /\ NormIdle
    /\ ExtIdle
    /\ CatIdle

ResetNext ==
    \/ ResetConectar
    \/ ResetBackup
    \/ ResetBorrar
    \/ ResetDescubrir
    \/ ResetDescargar
    \/ ResetExtraer
    \/ ResetSinExtraer
    \/ ResetGenerar
    \/ ResetSubir
    \/ ResetAbortar
    \/ ResetTerminar

SpecReset == ResetInit /\ [][ResetNext]_vars

\* positions of the steps of a reset
PasoRank(p) ==
    CASE p = "backup" -> 1 [] p = "delete" -> 2 [] p = "discover" -> 3 [] p = "upload" -> 4

\* the steps ran in the order backup, delete, rediscover, uploads
EnOrden ==
    /\ \A i \in 1..Len(pasos) : \A j \in 1..Len(pasos) :
          i < j => PasoRank(pasos[i]) <= PasoRank(pasos[j])
    /\ \A i \in 1..Len(pasos) :
          PasoRank(pasos[i]) <= 3 => PasoRank(pasos[i]) = i

\* without Firebase no step runs, nothing is deleted and main returns 1
SinFirebase == ~db => (pasos = <<>> /\ borrados = {} /\ (rpc = "fin" => codigo = 1))

\* menus are deleted only when backup_menus has returned True
BorradoTrasBackup == borrados # {} => respaldo.ret

\* C30: in --reset-db mode the steps run in the order backup, delete,
\* rediscover and upload; the existing menus are deleted only after
\* backup_menus has returned True; when Firebase is not initialised nothing
\* is deleted and main returns 1.
C30_DeleteOnlyAfterBackup == EnOrden /\ SinFirebase /\ BorradoTrasBackup

====
